---------------------------- MODULE Spec2Model ----------------------------
(***************************************************************************)
(* A model of the TFTP server: the protocol engine (tftp_proto.rs), the    *)
(* I/O policy proxy and the UDP dispatcher (tftp_server.rs).               *)
(*                                                                         *)
(* Packets are modelled as decoded values (records tagged by `op`); a      *)
(* datagram that Packet::read rejects is the value Malformed.  Datagrams   *)
(* the server keeps for retransmission (last_packets) are kept as the      *)
(* packet values they encode: the server never decodes them again.         *)
(* Option values are sequences: <<>> is None, <<v>> is Some(v).            *)
(***************************************************************************)
EXTENDS Integers, Sequences, FiniteSets, TLC

VARIABLES
    policy,       \* IOPolicyCfg: [readonly, path]
    fs,           \* the files of the underlying I/O capability: path key -> bytes
    connections,  \* ServerImpl.connections: token -> ConnectionState
    timers,       \* tokens with a pending timeout in ServerImpl.timer
    new_token,    \* ServerImpl.new_token
    hist,         \* per connection: the blocks transferred so far (history)
    last          \* the event handled last and what it put on the wire

vars == <<policy, fs, connections, timers, new_token, hist, last>>

----------------------------------------------------------------------------
(* Bounds of the model *)

\* file names sent by clients are all strings over NameChars up to this length
MaxNameLen == 3
\* full-size DATA blocks a writing client sends in one transfer
MaxBlocks == 2
\* the datagrams of one transfer during whose handling a call of the
\* dispatcher fails
MaxLost == 1
\* the largest token given to a connection when two transfers run at once
MaxToken == 4

\* the ticks of the idle timer of a connection
Period == 2
\* the values of a token (a usize in the code): the counter of generate_token
\* wraps from TokenSpace - 1 to 0
TokenSpace == 8

(* Program constants *)

U16 == 65536
HALF == 32768
DefaultBlocksize == 512
DefaultWindow == 1
TIMER == 0
FirstToken == 1
DirLen == 4096
MAX_BLOCKSIZE == 65464
MAX_PACKET_SIZE == MAX_BLOCKSIZE + 2

None == <<>>
Some(v) == <<v>>

----------------------------------------------------------------------------
(* Paths: std::path::Path on a Unix target.  A path is a sequence of       *)
(* one-character strings.                                                  *)

NameChars == {"a", ".", "/"}

RECURSIVE Segments(_)
\* the pieces of a path between its separators, the empty ones included
Segments(p) ==
    IF \A i \in 1..Len(p) : p[i] # "/" THEN <<p>>
    ELSE LET k == CHOOSE i \in 1..Len(p) :
                      p[i] = "/" /\ \A j \in 1..(i-1) : p[j] # "/"
         IN  <<SubSeq(p, 1, k-1)>> \o Segments(SubSeq(p, k+1, Len(p)))

is_absolute(p) == Len(p) > 0 /\ p[1] = "/"

IsDot(s) == s = <<".">>
IsDotDot(s) == s = <<".", ".">>

\* the component the piece at place i of a path stands for, if any: CurDir
\* for a leading ".", ParentDir for "..", Normal for a name; empty pieces and
\* inner "." pieces stand for none
Component(seg, i) ==
    IF seg = <<>> THEN <<>>
    ELSE IF IsDot(seg)
         THEN IF i = 1 THEN <<[kind |-> "CurDir"]>> ELSE <<>>
    ELSE IF IsDotDot(seg) THEN <<[kind |-> "ParentDir"]>>
    ELSE <<[kind |-> "Normal", name |-> seg]>>

RECURSIVE Walk(_, _)
\* the components of the pieces from place i on
Walk(segs, i) ==
    IF i > Len(segs) THEN <<>> ELSE Component(segs[i], i) \o Walk(segs, i + 1)

\* Path::components: RootDir for a leading separator, then the components of
\* the pieces
components(p) ==
    IF p = <<>> THEN <<>>
    ELSE (IF is_absolute(p) THEN <<[kind |-> "RootDir"]>> ELSE <<>>)
         \o Walk(Segments(p), 1)

\* any(|c| RootDir | ParentDir) over the components
AnyRootOrParent(comps) ==
    \E i \in 1..Len(comps) : comps[i].kind \in {"RootDir", "ParentDir"}

\* variant: a test that looks at the root of the name only
RejectsAbsolute(file) == is_absolute(file)

\* the test both policy operations apply to the client's file name
PolicyRejects(file) == is_absolute(file) \/ AnyRootOrParent(components(file))

\* PathBuf::join of the served directory and a relative file name
join(path, file) ==
    IF path # <<>> /\ path[Len(path)] = "/" THEN path \o file
    ELSE path \o <<"/">> \o file

----------------------------------------------------------------------------
(* The underlying I/O capability: FSAdapter over a directory tree.         *)
(* A file or directory is known by its key: the non-empty, non-"." pieces  *)
(* of its path from the working directory.                                 *)

ServedDir == <<"d">>

\* the directories that exist: the working directory and the served one
Dirs == {<<>>, <<ServedDir>>}

OsKey(p) == SelectSeq(Segments(p), LAMBDA s : s # <<>> /\ ~IsDot(s))

\* the path names a directory: it ends in a separator or in a "." piece
IsDirPiece(seg) == seg = <<>> \/ IsDot(seg)
LastPiece(segs) == segs[Len(segs)]
EndsAsDir(p) == IsDirPiece(LastPiece(Segments(p)))

\* every directory on the way to the key exists
DirsExist(key) == \A n \in 0..(Len(key) - 1) : SubSeq(key, 1, n) \in Dirs

\* every directory the path walks through exists
ParentsExist(p) == DirsExist(OsKey(p))

\* the key is a directory, or a file not named as a directory
KeyOpens(store, key, asdir) == key \in Dirs \/ (key \in DOMAIN store /\ ~asdir)

\* File::open(p): a handle on an existing file, or on a directory (which
\* opens, and whose reads then fail)
CanOpen(store, p) ==
    /\ p # <<>>
    /\ ParentsExist(p)
    /\ KeyOpens(store, OsKey(p), EndsAsDir(p))

\* the key is free and is not named as a directory
KeyCreates(store, key, asdir) ==
    key \notin Dirs /\ key \notin DOMAIN store /\ ~asdir

\* OpenOptions::new().write(true).create_new(true).open(p)
CanCreate(store, p) ==
    /\ p # <<>>
    /\ ParentsExist(p)
    /\ KeyCreates(store, OsKey(p), EndsAsDir(p))

Byte(i) == i % 7
FileBytes(n) == [i \in 1..n |-> Byte(i)]
Zeros(n) == [i \in 1..n |-> 0]

Min(a, b) == IF a < b THEN a ELSE b
Max(a, b) == IF a > b THEN a ELSE b


----------------------------------------------------------------------------
(* Packets (packet.rs) *)

RRQ(filename, mode, options) ==
    [op |-> "RRQ", filename |-> filename, mode |-> mode, options |-> options]
WRQ(filename, mode, options) ==
    [op |-> "WRQ", filename |-> filename, mode |-> mode, options |-> options]
DATA(block_num, data) == [op |-> "DATA", block_num |-> block_num, data |-> data]
ACK(block_num) == [op |-> "ACK", block_num |-> block_num]
ERROR(code, msg) == [op |-> "ERROR", code |-> code, msg |-> msg]
OACK(options) == [op |-> "OACK", options |-> options]

\* a datagram Packet::read returns an error for
Malformed == [op |-> "MALFORMED"]

\* ErrorCode::to_string
ErrorText(code) ==
    CASE code = "NotDefined" -> "Not defined, see error message (if any)."
      [] code = "FileNotFound" -> "File not found."
      [] code = "AccessViolation" -> "Access violation."
      [] code = "DiskFull" -> "Disk full or allocation exceeded."
      [] code = "IllegalTFTP" -> "Illegal TFTP operation."
      [] code = "UnknownID" -> "Unknown transfer ID."
      [] code = "FileExists" -> "File already exists."
      [] code = "NoUser" -> "No such user."
      [] code = "BadOption" -> "Bad option."

\* impl From<ErrorCode> for Packet
ErrorPacket(code) == ERROR(code, ErrorText(code))

Blocksize(size) == [name |-> "Blocksize", value |-> size]
TimeoutSecs(secs) == [name |-> "TimeoutSecs", value |-> secs]
TransferSize(size) == [name |-> "TransferSize", value |-> size]
WindowSize(size) == [name |-> "WindowSize", value |-> size]

----------------------------------------------------------------------------
(* Responses (tftp_proto.rs) *)

PacketItem(p) == [item |-> "Packet", p |-> p]
DoneItem == [item |-> "Done"]
RepeatLast(n) == [item |-> "RepeatLast", n |-> n]

Ok(v) == [ok |-> TRUE, v |-> v]
Err(e) == [ok |-> FALSE, v |-> e]

HasDone(resp) == \E i \in 1..Len(resp) : resp[i].item = "Done"

----------------------------------------------------------------------------
(* FSAdapter: the default I/O capability.  `fault` names the one system    *)
(* call of the operation that fails, if any.                               *)

\* a handle on the file or directory of a key, at its start
Handle(key) == [key |-> key, pos |-> 0]

\* File::metadata().ok().map(len) on an open handle
MetaLen(store, key, fault) ==
    IF fault = "nolen" THEN None
    ELSE IF key \in Dirs THEN Some(DirLen)
    ELSE Some(Len(store[key]))

\* FSAdapter::open_read: the handle and the length the metadata reports
FsOpenRead(store, file, fault) ==
    IF fault = "open" \/ ~CanOpen(store, file) THEN [ok |-> FALSE]
    ELSE [ok |-> TRUE, f |-> Handle(OsKey(file)),
          len |-> MetaLen(store, OsKey(file), fault)]

\* the store with one more file
WithFile(store, key, bytes) ==
    [k \in DOMAIN store \cup {key} |-> IF k = key THEN bytes ELSE store[k]]

\* FSAdapter::create_new: create the file, then set_len when a length is given;
\* a failing set_len returns the error after the file was created
FsCreateNew(store, file, len, fault) ==
    IF fault = "open" \/ ~CanCreate(store, file)
    THEN [ok |-> FALSE, store |-> store]
    ELSE IF len # None /\ fault = "prealloc"
    THEN [ok |-> FALSE, store |-> WithFile(store, OsKey(file), <<>>)]
    ELSE [ok |-> TRUE,
          store |-> WithFile(store, OsKey(file),
                             IF len = None THEN <<>> ELSE Zeros(len[1])),
          f |-> Handle(OsKey(file))]

\* Read::take(n).read_to_end on a handle: the next n bytes, fewer at the end
\* of the file; reading a directory fails
ReadBytes(store, f, n) ==
    SubSeq(store[f.key], f.pos + 1, Min(f.pos + n, Len(store[f.key])))

ReadFails(f, failing) == failing \/ f.key \in Dirs

\* Write::write_all on a handle: the bytes replace those at the position and
\* extend the file past its end
WriteBytes(store, f, data) ==
    LET old == store[f.key]
        n == Max(Len(old), f.pos + Len(data))
    IN  [store EXCEPT ![f.key] =
            [i \in 1..n |-> IF i > f.pos /\ i <= f.pos + Len(data)
                            THEN data[i - f.pos] ELSE old[i]]]

----------------------------------------------------------------------------
(* IOPolicyProxy (tftp_proto.rs): the policy in front of the capability.   *)
(* `calls` lists the calls that reached the underlying capability.         *)

FullPath(pol, file) == IF pol.path # None THEN join(pol.path[1], file) ELSE file

\* the result r of the underlying capability, with the calls c that reached it
WithCalls(r, c) ==
    [k \in DOMAIN r \cup {"calls"} |-> IF k = "calls" THEN c ELSE r[k]]

\* IOPolicyProxy::open_read
ProxyOpenRead(pol, store, file, fault) ==
    IF PolicyRejects(file) THEN [ok |-> FALSE, calls |-> <<>>]
    ELSE WithCalls(FsOpenRead(store, FullPath(pol, file), fault),
                   <<[call |-> "open_read", path |-> FullPath(pol, file)]>>)

\* variant: a proxy whose create_new does not look at the readonly flag
ProxyCreateNewWritable(pol, store, file, len, fault) ==
    IF PolicyRejects(file)
    THEN [ok |-> FALSE, calls |-> <<>>, store |-> store]
    ELSE WithCalls(FsCreateNew(store, FullPath(pol, file), len, fault),
                   <<[call |-> "create_new", path |-> FullPath(pol, file),
                      len |-> len]>>)

\* IOPolicyProxy::create_new
ProxyCreateNew(pol, store, file, len, fault) ==
    IF pol.readonly \/ PolicyRejects(file)
    THEN [ok |-> FALSE, calls |-> <<>>, store |-> store]
    ELSE WithCalls(FsCreateNew(store, FullPath(pol, file), len, fault),
                   <<[call |-> "create_new", path |-> FullPath(pol, file),
                      len |-> len]>>)

----------------------------------------------------------------------------
(* Serial numbers: sna::SerialNumber<u16>, RFC 1982 *)

WrapAdd(a, n) == (a + n) % U16

SnLt(a, b) == (a < b /\ b - a < HALF) \/ (a > b /\ a - b > HALF)
SnGe(a, b) == a = b \/ SnLt(b, a)

----------------------------------------------------------------------------
(* The protocol engine (tftp_proto.rs) *)

Complete == [kind |-> "Complete"]

NewMeta ==
    [blocksize |-> DefaultBlocksize, timeout |-> None, timed_out |-> FALSE,
     window_size |-> DefaultWindow]

\* the closure of rx_initial's filter_map, on the transfer's meta
ApplyOption(meta, opt) ==
    CASE opt.name = "Blocksize" -> [meta EXCEPT !.blocksize = opt.value]
      [] opt.name \in {"TimeoutSecs", "Timeout"}
            -> [meta EXCEPT !.timeout = Some(opt.value)]
      [] opt.name = "TransferSize" -> meta
      [] opt.name = "WindowSize" -> [meta EXCEPT !.window_size = opt.value]

RECURSIVE MetaOf(_, _)
MetaOf(meta, options) ==
    IF options = <<>> THEN meta
    ELSE MetaOf(ApplyOption(meta, Head(options)), Tail(options))

RECURSIVE TsizeOf(_, _)
\* the value of the last TransferSize option, if any
TsizeOf(tsize, options) ==
    IF options = <<>> THEN tsize
    ELSE TsizeOf(IF Head(options).name = "TransferSize"
                 THEN Some(Head(options).value) ELSE tsize, Tail(options))

\* the options filter_map keeps: all of them, but for TransferSize on a read
KeptOptions(options, is_write) ==
    SelectSeq(options, LAMBDA o : ~(o.name = "TransferSize" /\ ~is_write))

\* read_step after v was read: the block numbered n, the transfer after it
ReadOk(tx, v, n) ==
    [ok |-> TRUE,
     tx |-> [tx EXCEPT !.fread.pos = @ + Len(v),
                       !.sent_final = Len(v) < tx.meta.blocksize,
                       !.expected_block_num = n],
     p |-> DATA(n, v)]

\* TransferTx::read_step: Ok(DATA) and the transfer after it, or Err(ERROR)
read_step(tx, store, failing) ==
    IF ReadFails(tx.fread, failing)
    THEN [ok |-> FALSE, tx |-> tx, p |-> ErrorPacket("NotDefined")]
    ELSE ReadOk(tx, ReadBytes(store, tx.fread, tx.meta.blocksize),
                WrapAdd(tx.expected_block_num, 1))

\* the TransferTx new_read starts from
NewTx(fread, meta) ==
    [kind |-> "Tx", fread |-> fread, expected_block_num |-> 0,
     sent_final |-> FALSE, meta |-> meta]

\* the end of new_read on the result of its read_step
FirstRead(r) ==
    IF r.ok THEN [xfer |-> Some(r.tx), p |-> r.p] ELSE [xfer |-> None, p |-> r.p]

\* variant: a read transfer that reads its first block whatever the options
new_read_eager(store, fread, meta, options, fault) ==
    FirstRead(read_step(NewTx(fread, meta), store, fault = "read1"))

\* Transfer::new_read
new_read(store, fread, meta, options, fault) ==
    IF options = <<>>
    THEN FirstRead(read_step(NewTx(fread, meta), store, fault = "read1"))
    ELSE [xfer |-> Some(NewTx(fread, meta)), p |-> OACK(options)]

\* variant: a write transfer that answers ACK(0) whatever the options
new_write_acking(fwrite, meta, options) ==
    [xfer |-> Some([kind |-> "Rx", fwrite |-> fwrite, expected_block_num |-> 1,
                    meta |-> meta]),
     p |-> ACK(0)]

\* Transfer::new_write
new_write(fwrite, meta, options) ==
    [xfer |-> Some([kind |-> "Rx", fwrite |-> fwrite, expected_block_num |-> 1,
                    meta |-> meta]),
     p |-> IF options = <<>> THEN ACK(0) ELSE OACK(options)]

\* what rx_initial returns, with the store and the capability calls it leaves
Initial(xfer, res, store, calls) ==
    [xfer |-> xfer, res |-> res, store |-> store, calls |-> calls]

\* rx_initial on a packet that is neither RRQ nor WRQ
NotInitiating(store) == Initial(None, Err("NotIniatingPacket"), store, <<>>)

\* variant: one error code for every mode other than octet
ModeRejectedAlike(mode, store) ==
    Initial(None, Ok(ErrorPacket("NotDefined")), store, <<>>)

\* rx_initial on a request in a mode other than octet
ModeRejected(mode, store) ==
    Initial(None,
            Ok(ErrorPacket(IF mode = "Mail" THEN "NoUser" ELSE "NotDefined")),
            store, <<>>)

\* variant: a failed create_new answered as a failed open_read is
CreateFailedAsNotFound(store, calls) ==
    Initial(None, Ok(ErrorPacket("FileNotFound")), store, calls)

\* rx_initial when create_new returned an error
CreateFailed(store, calls) ==
    Initial(None, Ok(ErrorPacket("FileExists")), store, calls)

\* rx_initial when open_read returned an error
OpenFailed(store, calls) ==
    Initial(None, Ok(ErrorPacket("FileNotFound")), store, calls)

\* the end of rx_initial: the Transfer and the packet of new_read / new_write
Transferring(t, store, calls) == Initial(t.xfer, Ok(t.p), store, calls)

\* rx_initial for a WRQ, after create_new returned c
StartWrite(c, meta, options) ==
    IF ~c.ok THEN CreateFailed(c.store, c.calls)
    ELSE Transferring(new_write(c.f, meta, options), c.store, c.calls)

\* variant: the transfer size of the request is echoed as the client sent it
StartReadEchoing(o, store, meta, tsize, options, fault) ==
    IF ~o.ok THEN OpenFailed(store, o.calls)
    ELSE Transferring(new_read(store, o.f, meta,
                               IF tsize # None
                               THEN Append(options, TransferSize(tsize[1]))
                               ELSE options,
                               fault),
                      store, o.calls)

\* rx_initial for an RRQ, after open_read returned o
StartRead(o, store, meta, tsize, options, fault) ==
    IF ~o.ok THEN OpenFailed(store, o.calls)
    ELSE Transferring(new_read(store, o.f, meta,
                               IF tsize # None /\ o.len # None
                               THEN Append(options, TransferSize(o.len[1]))
                               ELSE options,
                               fault),
                      store, o.calls)

\* TftpServerProto::rx_initial
rx_initial(pol, store, packet, fault) ==
    IF packet.op \notin {"RRQ", "WRQ"} THEN NotInitiating(store)
    ELSE IF packet.mode # "Octet" THEN ModeRejected(packet.mode, store)
    ELSE IF packet.op = "WRQ"
    THEN StartWrite(ProxyCreateNew(pol, store, packet.filename,
                                   TsizeOf(None, packet.options), fault),
                    MetaOf(NewMeta, packet.options),
                    KeptOptions(packet.options, TRUE))
    ELSE StartRead(ProxyOpenRead(pol, store, packet.filename, fault), store,
                   MetaOf(NewMeta, packet.options),
                   TsizeOf(None, packet.options),
                   KeptOptions(packet.options, FALSE), fault)

\* Transfer::is_done
is_done(xfer) == xfer.kind = "Complete"

\* Transfer::timeout_expired: the transfer after it, and Repeat or Done
timeout_expired(xfer) ==
    IF is_done(xfer) THEN [xfer |-> Complete, result |-> "Done"]
    ELSE IF xfer.meta.timed_out THEN [xfer |-> Complete, result |-> "Done"]
    ELSE [xfer |-> [xfer EXCEPT !.meta.timed_out = TRUE], result |-> "Repeat"]

\* the answer of a packet handler: the transfer after it, the Response and
\* the store
Handled(xfer, resp, store) == [xfer |-> xfer, resp |-> resp, store |-> store]

RECURSIVE ReadLoop(_, _, _, _, _, _)
RECURSIVE AfterRead(_, _, _, _, _, _)
\* the loop of handle_ack: iteration i of n, with v the items pushed so far
ReadLoop(tx, i, n, v, store, fault) ==
    IF i > n THEN Handled(tx, v, store)
    ELSE AfterRead(read_step(tx, store,
                             (fault = "read1" /\ i = 1) \/ (fault = "read2" /\ i = 2)),
                   i, n, v, store, fault)

\* variant: a failed read answered after the items pushed before it
AfterReadKeeping(r, i, n, v, store, fault) ==
    IF ~r.ok THEN Handled(r.tx, v \o <<PacketItem(r.p), DoneItem>>, store)
    ELSE IF r.tx.sent_final
         THEN Handled(r.tx, Append(v, PacketItem(r.p)), store)
    ELSE ReadLoop(r.tx, i + 1, n, Append(v, PacketItem(r.p)), store, fault)

\* the body of the loop after read_step returned r
AfterRead(r, i, n, v, store, fault) ==
    IF ~r.ok THEN Handled(r.tx, <<PacketItem(r.p), DoneItem>>, store)
    ELSE IF r.tx.sent_final
         THEN Handled(r.tx, Append(v, PacketItem(r.p)), store)
    ELSE ReadLoop(r.tx, i + 1, n, Append(v, PacketItem(r.p)), store, fault)

\* variant: the window of an ACK told by the order of the integers
WindowStartPlain(tx, ack_block) ==
    IF /\ ack_block < tx.expected_block_num
       /\ ack_block + tx.meta.window_size >= tx.expected_block_num
    THEN tx.expected_block_num - ack_block
    ELSE 0

\* the first part of handle_ack: the blocks of the window the ACK leaves
\* outstanding, 0 when the ACK is not in the window
WindowStart(tx, ack_block) ==
    IF /\ SnLt(ack_block, tx.expected_block_num)
       /\ SnGe(WrapAdd(ack_block, tx.meta.window_size), tx.expected_block_num)
    THEN (tx.expected_block_num - ack_block) % U16
    ELSE 0

\* the last branch of handle_ack: clear timed_out and read the blocks from
\* window_start to the window size
ReadWindow(tx, window_start, store, fault) ==
    ReadLoop([tx EXCEPT !.meta.timed_out = FALSE], 1,
             tx.meta.window_size - window_start,
             IF window_start > 0 THEN <<RepeatLast(window_start)>> ELSE <<>>,
             store, fault)

\* TransferTx::handle_ack
handle_ack(tx, ack_block, store, fault) ==
    IF tx.meta.window_size = 1 /\ WrapAdd(ack_block, 1) = tx.expected_block_num
    THEN Handled(tx, <<RepeatLast(1)>>, store)
    ELSE IF tx.meta.window_size = 1 /\ ack_block # tx.expected_block_num
    THEN Handled(tx, <<PacketItem(ERROR("UnknownID", "Incorrect block num in ACK")),
                       DoneItem>>, store)
    ELSE IF tx.sent_final
    THEN Handled(tx, <<DoneItem>>, store)
    ELSE ReadWindow(tx, WindowStart(tx, ack_block), store, fault)

\* write_all fails: it calls write, the system call that fails, only while
\* bytes are left to write, so that of an empty block returns Ok
WriteFails(data, fault) == fault = "write" /\ data # <<>>

\* handle_data for the expected block, heard being the transfer with
\* timed_out cleared
WriteData(heard, block_num, data, store, fault) ==
    IF WriteFails(data, fault)
    THEN Handled(heard, <<PacketItem(ErrorPacket("NotDefined")), DoneItem>>, store)
    ELSE Handled([heard EXCEPT !.fwrite.pos = @ + Len(data),
                               !.expected_block_num = WrapAdd(block_num, 1)],
                 IF Len(data) < heard.meta.blocksize
                 THEN <<PacketItem(ACK(block_num)), DoneItem>>
                 ELSE <<PacketItem(ACK(block_num))>>,
                 WriteBytes(store, heard.fwrite, data))

\* variant: a write transfer that takes a DATA block of any number
handle_data_any(rx, block_num, data, store, fault) ==
    WriteData([rx EXCEPT !.meta.timed_out = FALSE], block_num, data, store, fault)

\* TransferRx::handle_data
handle_data(rx, block_num, data, store, fault) ==
    IF block_num # rx.expected_block_num
    THEN Handled(rx, <<PacketItem(ERROR("IllegalTFTP", "Data packet lost")),
                       DoneItem>>, store)
    ELSE WriteData([rx EXCEPT !.meta.timed_out = FALSE], block_num, data, store,
                   fault)

\* variant: the wrong kind of packet answered with an ERROR and no Done
WrongKindSurvives(xfer, store) ==
    [xfer |-> xfer,
     res |-> Ok(<<PacketItem(ErrorPacket("IllegalTFTP"))>>),
     store |-> store]

\* the arm of rx2 for a DATA or an ACK the transfer does not take
WrongKind(xfer, store) ==
    [xfer |-> xfer,
     res |-> Ok(<<PacketItem(ErrorPacket("IllegalTFTP")), DoneItem>>),
     store |-> store]

\* the arm of rx2 for an ERROR packet
OnError(xfer, store) == [xfer |-> xfer, res |-> Ok(<<DoneItem>>), store |-> store]

\* Ok(Response) of a packet handler, with the transfer and the store it leaves
Answer(h) == [xfer |-> h.xfer, res |-> Ok(h.resp), store |-> h.store]

\* the match of Transfer::rx2 on the packet and the transfer
Dispatch(xfer, packet, store, fault) ==
    IF packet.op = "ACK" /\ xfer.kind = "Tx"
    THEN Answer(handle_ack(xfer, packet.block_num, store, fault))
    ELSE IF packet.op = "DATA" /\ xfer.kind = "Rx"
    THEN Answer(handle_data(xfer, packet.block_num, packet.data, store, fault))
    ELSE IF packet.op \in {"DATA", "ACK"} THEN WrongKind(xfer, store)
    ELSE IF packet.op = "ERROR" THEN OnError(xfer, store)
    ELSE [xfer |-> xfer, res |-> Err("TransferAlreadyRunning"), store |-> store]

\* variant: the transfer is left as the handler of the packet left it
Uncompleted(d) == d

\* the end of rx2: the transfer is Complete when the Response holds Done
Completed(d) ==
    IF d.res.ok /\ HasDone(d.res.v) THEN [d EXCEPT !.xfer = Complete] ELSE d

\* variant: rx2 without the test of is_done
rx2_dispatching(xfer, packet, store, fault) ==
    Completed(Dispatch(xfer, packet, store, fault))

\* Transfer::rx2, the rx of the dispatcher: Ok(Response) or Err, the transfer
\* after it and the store
rx2(xfer, packet, store, fault) ==
    IF is_done(xfer)
    THEN [xfer |-> xfer, res |-> Ok(<<DoneItem>>), store |-> store]
    ELSE Completed(Dispatch(xfer, packet, store, fault))

\* the match of Transfer::rx on the first two items of a Response: the
\* TftpResult, or the panic of the last arm
TftpResultOf(resp) ==
    IF resp[1].item = "RepeatLast" /\ resp[1].n = 1 THEN [tag |-> "Repeat"]
    ELSE IF resp[1].item = "Packet" /\ Len(resp) = 1
    THEN [tag |-> "Reply", p |-> resp[1].p]
    ELSE IF resp[1].item = "Packet" /\ resp[2].item = "Done"
    THEN [tag |-> "Done", p |-> Some(resp[1].p)]
    ELSE IF resp[1].item = "Done" THEN [tag |-> "Done", p |-> None]
    ELSE [tag |-> "Panic"]

\* Transfer::rx on what rx2 returned
Transfer_rx(r) == IF r.res.ok THEN TftpResultOf(r.res.v) ELSE [tag |-> "Err", e |-> r.res.v]

\* TftpServer::handle_connection_packet (server.rs) panics on this datagram, a
\* packet or Malformed.  block_num is the u16 the connection holds and kind tells its
\* file: opened by File::open for an RRQ ("Tx") or made by File::create for
\* a WRQ ("Rx"), so that the read for an ACK fails on the file of a WRQ and
\* the write for a DATA fails on the file of an RRQ; fails tells that the
\* system call of the handler (read, write, send_to) fails for another
\* reason.  A call that fails makes the handler return the error before
\* the assert.  fired tells that handle_timer has polled the timeout of the
\* connection, which it does not set again, so that cancel_timeout returns
\* None and the assert on it fails for every packet that gets there.  build
\* is how the crate was built: conn.block_num + 1 and conn.block_num += 1
\* panic at 65535 in a debug build and wrap to 0 in a release build.  A
\* datagram that Packet::read returns an error for leaves the handler by
\* try! (182) before the match and the assert: no panic, fired or not.
ConnectionPanics(block_num, kind, fired, packet, build, fails) ==
    CASE packet = Malformed -> FALSE
      [] packet.op = "ACK" ->
            \/ packet.block_num # block_num
            \/ build = "debug" /\ block_num = U16 - 1
            \/ fired /\ kind = "Tx" /\ ~fails
      [] packet.op = "DATA" ->
            \/ build = "debug" /\ block_num = U16 - 1
            \/ packet.block_num # (block_num + 1) % U16
            \/ fired /\ kind = "Rx" /\ ~fails
      [] packet.op = "ERROR" -> TRUE
      [] OTHER -> fired

----------------------------------------------------------------------------
(* The dispatcher (tftp_server.rs) *)

\* the tokens with_cfg gives the listening sockets of the default two addresses
ServerTokens == {FirstToken, FirstToken + 1}

RECURSIVE NextFreeTimer(_, _)
\* variant: the loop skips the tokens of the two maps only
NextFreeTimer(t, used) ==
    IF t \in used THEN NextFreeTimer((t + 1) % TokenSpace, used) ELSE t

RECURSIVE NextFree(_, _)
\* the loop of generate_token, with the wrapping_add of the counter
NextFree(t, used) ==
    IF t = TIMER \/ t \in used THEN NextFree((t + 1) % TokenSpace, used) ELSE t

\* the check that opens generate_token: it panics when the two maps and the
\* timer hold usize::max_value() tokens
TokensLeft(conns) ==
    Cardinality(DOMAIN conns) + Cardinality(ServerTokens) + 1 # TokenSpace - 1

\* ServerImpl::generate_token
generate_token(token, conns) == NextFree(token, ServerTokens \cup DOMAIN conns)

\* a datagram on the wire
Datagram(to, p) == [to |-> to, pkt |-> p]

LastN(seq, n) == SubSeq(seq, Len(seq) - Min(Len(seq), n) + 1, Len(seq))

\* process_timer matches a ResponseItem, timeout_expired returns Repeat or
\* Done(None): Repeat is RepeatLast(1), as in Transfer::rx
TimeoutItem(result) == IF result = "Repeat" THEN RepeatLast(1) ELSE DoneItem

\* the datagrams of send_to for each of pkts
ToRemote(remote, pkts) == [i \in 1..Len(pkts) |-> Datagram(remote, pkts[i])]

\* write_to_slice writes the packet into the buffer of run, of
\* MAX_PACKET_SIZE bytes: a DATA packet is 4 bytes and its data, and no
\* other packet the server writes comes near the size of the buffer
Fits(p) == p.op = "DATA" => 4 + Len(p.data) <= MAX_PACKET_SIZE

\* the call of send_to that fails, among those a handler makes: net names
\* the one call of the dispatcher that fails, if any (socket, send1, send2)
SendFails(net, call) ==
    \/ net = "send1" /\ call = 1
    \/ net = "send2" /\ call = 2

\* what a loop over a Response has done: the datagrams sent, the packets
\* kept as sent_packets and the error that ended it, if any
Walked(wire, sent_packets, err) ==
    [wire |-> wire, sent_packets |-> sent_packets, err |-> err]

RECURSIVE SendEach(_, _, _, _)
\* the loop of send_to over the packets of a RepeatLast: the datagrams sent,
\* and whether a send_to failed
SendEach(pkts, remote, wire, net) ==
    IF pkts = <<>> THEN [wire |-> wire, failed |-> FALSE]
    ELSE IF SendFails(net, Len(wire) + 1) THEN [wire |-> wire, failed |-> TRUE]
    ELSE SendEach(Tail(pkts), remote, Append(wire, Datagram(remote, Head(pkts))),
                  net)

RECURSIVE WalkResponse(_, _, _, _, _)
\* the loop of handle_connection_packet over the Response: the datagrams
\* sent and the packets kept as sent_packets.  The ? of write_to_slice and
\* of send_to leave the loop and the handler with the error.
WalkResponse(resp, conn, wire, sent_packets, net) ==
    IF resp = <<>> \/ Head(resp).item = "Done"
    THEN Walked(wire, sent_packets, "none")
    ELSE IF Head(resp).item = "Packet"
    THEN IF ~Fits(Head(resp).p) THEN Walked(wire, sent_packets, "Packet")
         ELSE IF SendFails(net, Len(wire) + 1)
         THEN Walked(wire, sent_packets, "Io")
         ELSE WalkResponse(Tail(resp), conn,
                           Append(wire, Datagram(conn.remote, Head(resp).p)),
                           Append(sent_packets, Head(resp).p), net)
    ELSE LET again == SendEach(LastN(conn.last_packets, Head(resp).n),
                               conn.remote, wire, net)
         IN  IF again.failed THEN Walked(again.wire, sent_packets, "Io")
             ELSE WalkResponse(Tail(resp), conn, again.wire, sent_packets, net)

\* ServerImpl::create_connection
create_connection(conns, token, transfer, packet, remote) ==
    [t \in DOMAIN conns \cup {token} |->
        IF t = token
        THEN [transfer |-> transfer, last_packets |-> <<packet>>, remote |-> remote]
        ELSE conns[t]]

\* the map after HashMap::remove
Without(f, token) == [t \in DOMAIN f \ {token} |-> f[t]]

\* ServerImpl::cancel_connection
cancel_connection(d, token) ==
    IF token \in DOMAIN d.connections
    THEN [d EXCEPT !.connections = Without(d.connections, token),
                   !.timers = @ \ {token}]
    ELSE d

\* ServerImpl::reset_timeout
reset_timeout(d, token) ==
    IF token \in DOMAIN d.connections
    THEN [d EXCEPT !.timers = @ \cup {token}]
    ELSE d

\* the arms of process_timer for the item of timeout_expired, and the match
\* on the status: moved is the dispatcher with the transfer after the expiry,
\* again the packets to send again.  A send_to that fails returns its error
\* from process_timer.
TimerItem(moved, conn, token, item, again, failing) ==
    IF item.item = "Done" THEN cancel_connection(moved, token)
    ELSE IF token \in failing /\ again # <<>> THEN [moved EXCEPT !.err = TRUE]
    ELSE reset_timeout([moved EXCEPT !.wire = @ \o ToRemote(conn.remote, again)],
                       token)

\* process_timer after timeout_expired answered item for the connection
TimerAnswer(moved, conn, token, item, failing) ==
    TimerItem(moved, conn, token, item,
              IF item.item = "Done" THEN <<>> ELSE LastN(conn.last_packets, item.n),
              failing)

\* process_timer after timeout_expired returned r for the connection
Expired(d, token, r, failing) ==
    TimerAnswer([d EXCEPT !.connections[token].transfer = r.xfer,
                          !.seen = @ \cup {token}],
                d.connections[token], token, TimeoutItem(r.result), failing)

\* one pass of the loop of process_timer, for one drained token
TimerStep(d, token, failing) ==
    IF token \notin DOMAIN d.connections THEN d
    ELSE Expired(d, token, timeout_expired(d.connections[token].transfer), failing)

RECURSIVE TimerLoop(_, _, _)
\* the loop of process_timer over the drained tokens, left by the first error
TimerLoop(d, tokens, failing) ==
    IF tokens = <<>> \/ d.err THEN d
    ELSE TimerLoop(TimerStep(d, Head(tokens), failing), Tail(tokens), failing)

\* the dispatcher as process_timer finds it once the timer is drained
Drained(conns, armed, tokens) ==
    [connections |-> conns,
     timers |-> armed \ {tokens[i] : i \in 1..Len(tokens)},
     wire |-> <<>>, err |-> FALSE, seen |-> {}]

----------------------------------------------------------------------------
(* History: per connection, the blocks transferred (written to the sink, *)
(* or read and emitted), how far a lock-step reader has acknowledged, the *)
(* highest block acknowledged by an ACK in the window, the datagrams of   *)
(* the last reply to the peer, and the expirations of the timer since the *)
(* last datagram was received.                                            *)

Block(p) == [block_num |-> p.block_num, data |-> p.data]

\* the DATA packets among the items of a Response
RECURSIVE FreshData(_)
FreshData(resp) ==
    IF resp = <<>> THEN <<>>
    ELSE IF Head(resp).item = "Packet" /\ Head(resp).p.op = "DATA"
         THEN <<Block(Head(resp).p)>> \o FreshData(Tail(resp))
         ELSE FreshData(Tail(resp))

\* the acknowledgement a lock-step reader sends next: ACK(0) for an OACK,
\* then the number of each block in the order received
LockstepAck(h) ==
    IF h.oack THEN Some(ACK(0))
    ELSE IF h.acks < Len(h.data) THEN Some(ACK(h.data[h.acks + 1].block_num))
    ELSE None

\* the packet is an ACK in the window (e - w, e] of the read transfer
AckedInWindow(tx, packet) ==
    /\ packet.op = "ACK"
    /\ (tx.expected_block_num + U16 - packet.block_num) % U16 < tx.meta.window_size

NewHist(reply) ==
    [data |-> IF reply.op = "DATA" THEN <<Block(reply)>> ELSE <<>>,
     acks |-> 0,
     acked |-> 0,
     oack |-> reply.op = "OACK",
     lock |-> TRUE,
     wire |-> <<reply>>,
     idle |-> 0,
     lost |-> 0]

\* the history after a packet of the peer was handled
HistAfter(h, pre, packet, fault, res, wire) ==
    LET inorder == fault = "none" /\ LockstepAck(h) = Some(packet)
        fresh == IF ~res.ok THEN <<>>
                 ELSE IF pre.kind = "Tx" THEN FreshData(res.v)
                 ELSE IF /\ pre.kind = "Rx" /\ packet.op = "DATA"
                         /\ ~WriteFails(packet.data, fault)
                         /\ packet.block_num = pre.expected_block_num
                      THEN <<Block(packet)>>
                 ELSE <<>>
    IN  [data |-> h.data \o fresh,
         acks |-> IF inorder /\ ~h.oack THEN h.acks + 1 ELSE h.acks,
         acked |-> IF pre.kind = "Tx" /\ AckedInWindow(pre, packet)
                      /\ SnLt(h.acked, packet.block_num)
                   THEN packet.block_num ELSE h.acked,
         oack |-> IF inorder THEN FALSE ELSE h.oack,
         lock |-> h.lock /\ inorder,
         wire |-> IF res.ok /\ wire # <<>>
                  THEN [i \in 1..Len(wire) |-> wire[i].pkt] ELSE h.wire,
         idle |-> 0,
         lost |-> h.lost]

\* the history after a handler that returned io
Lost(h, io) == IF io = "none" THEN h ELSE [h EXCEPT !.lost = @ + 1]

----------------------------------------------------------------------------
(* The events: what the clients, the timer and the environment may do *)

\* the address of the client, and an address no transfer belongs to
Client == "p1"
Stray == "p2"

\* the served files, in the working and in the served directory: "a" of two
\* full blocks of 8 and one byte, "aa" of two full blocks of 8
InitStore ==
    [k \in {<< <<"a">> >>, << <<"a", "a">> >>,
            <<ServedDir, <<"a">> >>, <<ServedDir, <<"a", "a">> >>} |->
        IF k[Len(k)] = <<"a">> THEN FileBytes(17) ELSE FileBytes(16)]

EmptyMap == [t \in {} |-> t]

NoPacket == [op |-> "-"]

\* the record of an event: the input (fault is the system call that fails,
\* and for the timer the tokens of the sockets whose send_to fails), the
\* connections, the timeouts, the history and the store it found, what the
\* Transfer returned, the datagrams sent and the calls made on the
\* underlying capability
Event(op, token, src, pkt, fault, ret, sent, calls) ==
    [op |-> op, token |-> token, src |-> src, pkt |-> pkt, fault |-> fault,
     pre |-> connections, armed |-> timers, was |-> hist, disk |-> fs,
     ret |-> ret, sent |-> sent, calls |-> calls, net |-> "none",
     io |-> "none"]

\* the record of an event of a handler: net is the call of the dispatcher
\* that fails, if it is made, and io the TftpError the handler returned by
\* the ? of a call of the dispatcher, Io or Packet, or none
Left(event, net, io) == [event EXCEPT !.net = net, !.io = io]

NoEvent == Event("none", 0, "-", NoPacket, "none", Err("-"), <<>>, <<>>)

\* ServerImpl::with_cfg, for a policy and a store
Started(pol, store) ==
    /\ policy = pol
    /\ fs = store
    /\ connections = EmptyMap
    /\ timers = {}
    /\ new_token = FirstToken + Cardinality(ServerTokens)
    /\ hist = EmptyMap
    /\ last = NoEvent

\* the error that makes handle_server_packet return before the connection
\* is made: of make_bound_socket, of write_to_slice or of send_to
ReplyError(reply, net) ==
    IF net = "socket" THEN "Io"
    ELSE IF ~Fits(reply) THEN "Packet"
    ELSE IF SendFails(net, 1) THEN "Io"
    ELSE "none"

\* handle_server_packet after rx_initial returned r for the token tok, io
\* being the error that ends it
ServerReplied(tok, r, src, packet, fault, net, io) ==
    /\ new_token' = tok
    /\ fs' = r.store
    /\ connections' =
           IF io = "none" /\ r.xfer # None
           THEN create_connection(connections, tok, r.xfer[1], r.res.v, src)
           ELSE connections
    /\ timers' = IF io = "none" /\ r.xfer # None THEN timers \cup {tok} ELSE timers
    /\ hist' = IF io = "none" /\ r.xfer # None
               THEN [t \in DOMAIN hist \cup {tok} |->
                        IF t = tok
                        THEN [NewHist(r.res.v) EXCEPT !.lock = fault = "none"]
                        ELSE hist[t]]
               ELSE hist
    /\ last' = Left(Event("server", tok, src, packet, fault,
                          [xfer |-> r.xfer, res |-> r.res],
                          IF io = "none" THEN <<Datagram(src, r.res.v)>> ELSE <<>>,
                          r.calls), net, io)
    /\ UNCHANGED policy

\* handle_server_packet after rx_initial returned r for the token tok: an
\* error of rx_initial is logged and nothing is sent
ServerReply(tok, r, src, packet, fault, net) ==
    IF r.res.ok
    THEN ServerReplied(tok, r, src, packet, fault, net, ReplyError(r.res.v, net))
    ELSE /\ new_token' = tok
         /\ fs' = r.store
         /\ last' = Left(Event("server", tok, src, packet, fault,
                               [xfer |-> r.xfer, res |-> r.res], <<>>, r.calls),
                         net, "none")
         /\ UNCHANGED <<policy, connections, timers, hist>>

\* ServerImpl::handle_server_packet on a datagram from src
HandleServerPacket(src, packet, fault, net) ==
    IF packet = Malformed
    THEN /\ last' = Left(Event("server", 0, src, packet, fault, Err("Packet"),
                               <<>>, <<>>), net, "none")
         /\ UNCHANGED <<policy, fs, connections, timers, new_token, hist>>
    ELSE ServerReply(generate_token(new_token, connections),
                     rx_initial(policy, fs, packet, fault), src, packet, fault,
                     net)

\* variant: the datagrams kept for a repeat are replaced also when the
\* Transfer returned an error
ConnReplyForgetting(token, conn, r, w, src, packet, fault, net) ==
    /\ fs' = r.store
    /\ connections' = [connections EXCEPT
                           ![token].transfer = r.xfer,
                           ![token].last_packets =
                               IF w.err = "none" THEN w.sent_packets ELSE @]
    /\ hist' = [hist EXCEPT
                   ![token] = Lost(HistAfter(@, conn.transfer, packet, fault,
                                             r.res, w.wire), w.err)]
    /\ last' = Left(Event("conn", token, src, packet, fault, r.res, w.wire, <<>>),
                    net, w.err)

\* variant: the datagrams sent are added to those kept for a repeat
ConnReplyAppending(token, conn, r, w, src, packet, fault, net) ==
    /\ fs' = r.store
    /\ connections' =
           IF r.res.ok
           THEN [connections EXCEPT
                    ![token].transfer = r.xfer,
                    ![token].last_packets =
                        IF w.err = "none" THEN @ \o w.sent_packets ELSE @]
           ELSE connections
    /\ hist' = [hist EXCEPT
                   ![token] = Lost(HistAfter(@, conn.transfer, packet, fault,
                                             r.res, w.wire), w.err)]
    /\ last' = Left(Event("conn", token, src, packet, fault, r.res, w.wire, <<>>),
                    net, w.err)

\* handle_connection_packet after the loop over the Response returned w:
\* the Transfer is the one rx left, and last_packets is replaced when the
\* loop ended without an error
ConnReply(token, conn, r, w, src, packet, fault, net) ==
    /\ fs' = r.store
    /\ connections' =
           IF r.res.ok
           THEN [connections EXCEPT
                    ![token].transfer = r.xfer,
                    ![token].last_packets =
                        IF w.err = "none" THEN w.sent_packets ELSE @]
           ELSE connections
    /\ hist' = [hist EXCEPT
                   ![token] = Lost(HistAfter(@, conn.transfer, packet, fault,
                                             r.res, w.wire), w.err)]
    /\ last' = Left(Event("conn", token, src, packet, fault, r.res, w.wire, <<>>),
                    net, w.err)

\* handle_connection_packet after rx returned r
ConnHandled(token, conn, r, src, packet, fault, net) ==
    ConnReply(token, conn, r,
              WalkResponse(IF r.res.ok THEN r.res.v ELSE <<>>, conn, <<>>, <<>>,
                           net),
              src, packet, fault, net)

\* handle_connection_packet on a datagram from another address than the
\* remote of the connection
StrayDatagram(token, conn, src, packet, fault, net) ==
    /\ last' = IF SendFails(net, 1)
               THEN Left(Event("conn", token, src, packet, fault, Err("Stray"),
                               <<>>, <<>>), net, "Io")
               ELSE Left(Event("conn", token, src, packet, fault, Err("Stray"),
                               <<Datagram(conn.remote, ErrorPacket("UnknownID"))>>,
                               <<>>), net, "none")
    /\ hist' = [hist EXCEPT
                   ![token] = Lost([@ EXCEPT !.lock = FALSE, !.idle = 0],
                                   IF SendFails(net, 1) THEN "Io" ELSE "none")]
    /\ UNCHANGED <<fs, connections>>

\* variant: a datagram that does not decode closes the connection
MalformedCloses(token, conn, src, packet, fault) ==
    /\ last' = Event("conn", token, src, packet, fault, Err("Packet"), <<>>, <<>>)
    /\ hist' = [hist EXCEPT ![token].lock = FALSE, ![token].idle = 0]
    /\ connections' = Without(connections, token)
    /\ UNCHANGED fs

\* handle_connection_packet on a datagram of the remote that Packet::read
\* returns an error for: the error is returned to run, which logs it
MalformedDatagram(token, conn, src, packet, fault) ==
    /\ last' = Event("conn", token, src, packet, fault, Err("Packet"), <<>>, <<>>)
    /\ hist' = [hist EXCEPT ![token].lock = FALSE, ![token].idle = 0]
    /\ UNCHANGED <<fs, connections>>

\* handle_connection_packet for the connection conn of the token
ConnPacket(token, conn, src, packet, fault, net) ==
    IF conn.remote # src THEN StrayDatagram(token, conn, src, packet, fault, net)
    ELSE IF packet = Malformed
    THEN MalformedDatagram(token, conn, src, packet, fault)
    ELSE ConnHandled(token, conn, rx2(conn.transfer, packet, fs, fault),
                     src, packet, fault, net)

\* ServerImpl::handle_connection_packet on a datagram from src
HandleConnectionPacket(token, src, packet, fault, net) ==
    /\ token \in DOMAIN connections
    /\ timers' = timers \cup {token}
    /\ UNCHANGED <<policy, new_token>>
    /\ ConnPacket(token, connections[token], src, packet, fault, net)

\* process_timer after its loop over the drained tokens left d
TimerHandled(d, tokens, failing) ==
    /\ connections' = d.connections
    /\ timers' = d.timers
    /\ hist' = [t \in DOMAIN d.connections |->
                   IF t \in d.seen
                   THEN [hist[t] EXCEPT !.lock = FALSE, !.idle = @ + 1]
                   ELSE hist[t]]
    /\ last' = Event("timer", tokens, "-", NoPacket, failing,
                     IF d.err THEN Err("Io") ELSE Ok(<<>>), d.wire, <<>>)
    /\ UNCHANGED <<policy, fs, new_token>>

\* the match of run on what handle_token returned: Io errors are swallowed,
\* Packet errors are logged, any other error is returned
RunContinues(ret) == ret.ok \/ ret.v \in {"Io", "Packet"}

\* ServerImpl::process_timer with `tokens` the expired tokens the timer
\* yields and `failing` the tokens of the sockets whose send_to fails
ProcessTimer(tokens, failing) ==
    TimerHandled(TimerLoop(Drained(connections, timers, tokens), tokens, failing),
                 tokens, failing)

\* the orders in which some of the pending timeouts can expire together
ExpiryOrders ==
    {s \in UNION {[1..n -> timers] : n \in 1..Cardinality(timers)} :
        \A i, j \in 1..Len(s) : s[i] = s[j] => i = j}

\* the system call that may fail while a request is handled
RequestFaults(packet) ==
    CASE packet.op = "RRQ" -> {"none", "open", "nolen", "read1"}
      [] packet.op = "WRQ" -> {"none", "open", "prealloc"}
      [] OTHER -> {"none"}

\* the system call that may fail while a packet of a transfer is handled
TransferFaults(xfer, packet) ==
    CASE packet.op = "ACK" /\ xfer.kind = "Tx" -> {"none", "read1", "read2"}
      [] packet.op = "DATA" /\ xfer.kind = "Rx" -> {"none", "write"}
      [] OTHER -> {"none"}

\* the call of the dispatcher that may fail while a request is handled:
\* make_bound_socket, or send_to
RequestNetFaults(packet) ==
    IF packet.op \in {"RRQ", "WRQ"} THEN {"none", "socket", "send1"} ELSE {"none"}

\* the call of send_to that may fail while a packet of a transfer is
\* handled: the first one, or the second one of a window of two; lost is
\* the number of datagrams of the transfer a call has failed for
TransferNetFaults(xfer, packet, lost) ==
    IF lost >= MaxLost THEN {"none"}
    ELSE IF packet.op = "ACK" /\ xfer.kind = "Tx" THEN {"none", "send1", "send2"}
    ELSE IF packet.op \in {"ACK", "DATA"} /\ xfer.kind = "Rx" THEN {"none", "send1"}
    ELSE IF packet.op = "DATA" /\ xfer.kind = "Tx" THEN {"none", "send1"}
    ELSE {"none"}

\* the send_to of the ERROR for a datagram of another address may fail
StrayNetFaults(lost) == IF lost >= MaxLost THEN {"none"} ELSE {"none", "send1"}

\* a full block a writing client sends as block n
FullBlock(n, size) == [i \in 1..size |-> (n + i) % 4]

\* the payloads a writing client may send next: short ones, and a full block
\* while it has sent fewer than MaxBlocks
Payloads(token, n, size) ==
    {<<>>, <<9>>} \cup
    (IF Len(hist[token].data) < MaxBlocks THEN {FullBlock(n, size)} ELSE {})

\* the datagrams the peer of a transfer may send to its socket
ClientPackets(token) ==
    LET xfer == connections[token].transfer
        e == xfer.expected_block_num
    IN  IF is_done(xfer)
        THEN {ACK(0), DATA(1, <<>>), ErrorPacket("NotDefined"), OACK(<<>>),
              RRQ(<<"a">>, "Octet", <<>>), WRQ(<<"a">>, "Octet", <<>>), Malformed}
        ELSE (IF xfer.kind = "Tx"
              THEN {ACK((e + U16 + k) % U16) : k \in -3..1} \cup {DATA(1, <<>>)}
              ELSE {DATA((e + U16 + k) % U16, data) :
                        k \in -2..2, data \in Payloads(token, e, xfer.meta.blocksize)}
                   \cup {ACK(0)})
             \cup {ErrorPacket("NotDefined"), OACK(<<>>),
                   RRQ(<<"a">>, "Octet", <<>>), WRQ(<<"a">>, "Octet", <<>>),
                   Malformed}

\* the requests of the client
Requests ==
    {RRQ(n, "Octet", o) :
        n \in {<<"a">>, <<"a", "a">>, <<"a", ".">>},
        o \in {<<>>, <<Blocksize(8)>>, <<WindowSize(2), Blocksize(8)>>,
               <<TransferSize(0)>>}}
    \cup {WRQ(n, "Octet", o) :
        n \in {<<"a">>, <<"a", ".">>},
        o \in {<<>>, <<Blocksize(8)>>, <<TransferSize(3)>>,
               <<WindowSize(2), Blocksize(8)>>}}
    \cup {RRQ(<<"a">>, "Mail", <<>>), WRQ(<<"a">>, "Netascii", <<>>),
          ACK(0), Malformed}

\* no transfer was accepted yet, or only ones that left the store as it was
Fresh == DOMAIN connections = {} /\ fs = InitStore

Init ==
    \E ro \in BOOLEAN : Started([readonly |-> ro, path |-> None], InitStore)

Request ==
    /\ Fresh
    /\ \E packet \in Requests :
           \E fault \in RequestFaults(packet), net \in RequestNetFaults(packet) :
               HandleServerPacket(Client, packet, fault, net)

Receive ==
    \E token \in DOMAIN connections :
        \E packet \in ClientPackets(token) :
            \E fault \in TransferFaults(connections[token].transfer, packet),
               net \in TransferNetFaults(connections[token].transfer, packet,
                                         hist[token].lost) :
                HandleConnectionPacket(token, Client, packet, fault, net)

ReceiveStray ==
    \E token \in DOMAIN connections :
        \E net \in StrayNetFaults(hist[token].lost) :
            HandleConnectionPacket(token, Stray, ACK(0), "none", net)

Expire ==
    \E tokens \in ExpiryOrders :
        \E failing \in SUBSET {tokens[i] : i \in 1..Len(tokens)} :
            ProcessTimer(tokens, failing)

Next == Request \/ Receive \/ ReceiveStray \/ Expire

Spec == Init /\ [][Next]_vars

----------------------------------------------------------------------------
(* The codec (packet.rs, options.rs).  A datagram is a sequence of bytes,  *)
(* a string of a packet the sequence of its bytes (ASCII).                 *)

\* TftpOption::Timeout of options.rs
Timeout(t) == [name |-> "Timeout", value |-> t]

\* "blksize", "tsize", "timeout", "octet", "mail", "netascii"
StrBlksize == <<98, 108, 107, 115, 105, 122, 101>>
StrTsize == <<116, 115, 105, 122, 101>>
StrTimeout == <<116, 105, 109, 101, 111, 117, 116>>
StrOctet == <<111, 99, 116, 101, 116>>
StrMail == <<109, 97, 105, 108>>
StrNetascii == <<110, 101, 116, 97, 115, 99, 105, 105>>

\* u8::to_ascii_lowercase
Lower(b) == IF b \in 65..90 THEN b + 32 ELSE b

\* str::eq_ignore_ascii_case
eq_ignore_ascii_case(a, b) ==
    Len(a) = Len(b) /\ \A i \in 1..Len(a) : Lower(a[i]) = Lower(b[i])

RECURSIVE Decimal(_)
\* the Display of an unsigned integer
Decimal(n) ==
    IF n < 10 THEN <<48 + n>> ELSE Append(Decimal(n \div 10), 48 + (n % 10))

RECURSIVE Digits(_, _, _)
\* the loop of from_str_radix over the digits, with its checked arithmetic:
\* limit is Some(the largest value of the type), or None for u64, which no
\* string of the model overflows
Digits(s, acc, limit) ==
    IF s = <<>> THEN Some(acc)
    ELSE IF Head(s) \notin 48..57 THEN None
    ELSE IF limit # None /\ acc * 10 + (Head(s) - 48) > limit[1] THEN None
    ELSE Digits(Tail(s), acc * 10 + (Head(s) - 48), limit)

\* the digits of from_str_radix once a leading + is taken off
Unsigned(s, limit) == IF s = <<>> THEN None ELSE Digits(s, 0, limit)

\* str::parse for an unsigned integer type
parse(value, limit) ==
    IF value # <<>> /\ value[1] = 43 THEN Unsigned(Tail(value), limit)
    ELSE Unsigned(value, limit)

\* TftpOption::write_to
write_to(opt) ==
    (CASE opt.name = "Blocksize" -> StrBlksize
       [] opt.name = "TransferSize" -> StrTsize
       [] opt.name = "Timeout" -> StrTimeout)
    \o <<0>> \o Decimal(opt.value) \o <<0>>

\* variant: a blksize of any u16 value is taken
BlocksizeOfAny(val) == IF val = None THEN None ELSE Some(Blocksize(val[1]))

\* the blksize arm of try_from once the value is parsed
BlocksizeOf(val) ==
    IF val = None THEN None
    ELSE IF val[1] >= 8 /\ val[1] <= MAX_BLOCKSIZE THEN Some(Blocksize(val[1]))
    ELSE None

\* the timeout and tsize arms of try_from once the value is parsed
Parsed(val, name) ==
    IF val = None THEN None ELSE Some([name |-> name, value |-> val[1]])

\* TftpOption::try_from
try_from(name, value) ==
    IF eq_ignore_ascii_case(StrBlksize, name)
    THEN BlocksizeOf(parse(value, Some(U16 - 1)))
    ELSE IF eq_ignore_ascii_case(StrTimeout, name)
    THEN Parsed(parse(value, Some(255)), "Timeout")
    ELSE IF eq_ignore_ascii_case(StrTsize, name)
    THEN Parsed(parse(value, None), "TransferSize")
    ELSE None

\* the position of the first zero byte at or after i, 0 when there is none
RECURSIVE ZeroFrom(_, _)
ZeroFrom(bytes, i) ==
    IF i > Len(bytes) THEN 0
    ELSE IF bytes[i] = 0 THEN i
    ELSE ZeroFrom(bytes, i + 1)

\* the byte at i is one of lo..hi
ByteIn(bytes, i, lo, hi) == i <= Len(bytes) /\ bytes[i] \in lo..hi

\* the number of bytes of the UTF-8 sequence that starts at i, 0 when the
\* bytes there are not one: no overlong form, no surrogate, nothing above
\* U+10FFFF; the bytes that follow the first are continuation bytes,
\* 128..191, the second of a narrower range after e0, ed, f0 and f4
Utf8Width(bytes, i) ==
    CASE bytes[i] <= 127 -> 1
      [] ByteIn(bytes, i, 194, 223) /\ ByteIn(bytes, i + 1, 128, 191) -> 2
      [] bytes[i] = 224 /\ ByteIn(bytes, i + 1, 160, 191)
            /\ ByteIn(bytes, i + 2, 128, 191) -> 3
      [] (ByteIn(bytes, i, 225, 236) \/ ByteIn(bytes, i, 238, 239))
            /\ ByteIn(bytes, i + 1, 128, 191) /\ ByteIn(bytes, i + 2, 128, 191) -> 3
      [] bytes[i] = 237 /\ ByteIn(bytes, i + 1, 128, 159)
            /\ ByteIn(bytes, i + 2, 128, 191) -> 3
      [] bytes[i] = 240 /\ ByteIn(bytes, i + 1, 144, 191)
            /\ ByteIn(bytes, i + 2, 128, 191) /\ ByteIn(bytes, i + 3, 128, 191) -> 4
      [] ByteIn(bytes, i, 241, 243) /\ ByteIn(bytes, i + 1, 128, 191)
            /\ ByteIn(bytes, i + 2, 128, 191) /\ ByteIn(bytes, i + 3, 128, 191) -> 4
      [] bytes[i] = 244 /\ ByteIn(bytes, i + 1, 128, 143)
            /\ ByteIn(bytes, i + 2, 128, 191) /\ ByteIn(bytes, i + 3, 128, 191) -> 4
      [] OTHER -> 0

RECURSIVE Utf8From(_, _)
\* the bytes from i on are UTF-8
Utf8From(bytes, i) ==
    IF i > Len(bytes) THEN TRUE
    ELSE IF Utf8Width(bytes, i) = 0 THEN FALSE
    ELSE Utf8From(bytes, i + Utf8Width(bytes, i))

\* str::from_utf8(..).ok() is Some: the bytes are UTF-8
from_utf8(bytes) == Utf8From(bytes, 1)

RECURSIVE Strings(_)
RECURSIVE StringsAt(_, _)
\* the strings::Strings iterator collected, as its users read it: the
\* zero-terminated strings up to the first next() that returns None, for
\* want of a zero byte or because the string before it is not UTF-8
Strings(bytes) == StringsAt(bytes, ZeroFrom(bytes, 1))

\* Strings::next with zero the position of the first zero byte, and the
\* strings that follow a string it returns
StringsAt(bytes, zero) ==
    IF zero = 0 THEN <<>>
    ELSE IF ~from_utf8(SubSeq(bytes, 1, zero - 1)) THEN <<>>
    ELSE <<SubSeq(bytes, 1, zero - 1)>>
         \o Strings(SubSeq(bytes, zero + 1, Len(bytes)))

RECURSIVE read_options(_)
\* the option try_from returned, pushed before the options that follow
Pushed(opt, rest) == IF opt = None THEN rest ELSE <<opt[1]>> \o rest

\* read_options over the strings left
read_options(strings) ==
    IF Len(strings) < 2 THEN <<>>
    ELSE Pushed(try_from(strings[1], strings[2]),
                read_options(SubSeq(strings, 3, Len(strings))))

\* TransferMode::try_from
ModeOf(s) ==
    IF eq_ignore_ascii_case(StrOctet, s) THEN Ok("Octet")
    ELSE IF eq_ignore_ascii_case(StrNetascii, s) THEN Ok("Netascii")
    ELSE IF eq_ignore_ascii_case(StrMail, s) THEN Ok("Mail")
    ELSE Err("UnsupportedField")

\* the Display of TransferMode
ModeText(mode) ==
    CASE mode = "Octet" -> StrOctet
      [] mode = "Mail" -> StrMail
      [] mode = "Netascii" -> StrNetascii

\* the error codes in the order of their numbers, from 0
ErrorCodes ==
    <<"NotDefined", "FileNotFound", "AccessViolation", "DiskFull", "IllegalTFTP",
      "UnknownID", "FileExists", "NoUser", "BadOption">>

\* ErrorCode as u16
CodeNumber(code) == (CHOOSE i \in 1..Len(ErrorCodes) : ErrorCodes[i] = code) - 1

\* the two bytes of a 16-bit number, the low byte first
write_u16_le(n) == <<n % 256, n \div 256>>

\* WriteBytesExt::write_u16::<BigEndian>
write_u16(n) == <<n \div 256, n % 256>>

\* ReadBytesExt::read_u16::<BigEndian> of the first two bytes
read_u16(bytes) == bytes[1] * 256 + bytes[2]

RECURSIVE OptionBytes(_)
\* the loop of write_to over the options
OptionBytes(options) ==
    IF options = <<>> THEN <<>>
    ELSE write_to(Head(options)) \o OptionBytes(Tail(options))

\* rw_packet_bytes
rw_packet_bytes(opcode, filename, mode, options) ==
    write_u16(opcode) \o filename \o <<0>> \o ModeText(mode) \o <<0>>
    \o OptionBytes(options)

\* Packet::to_bytes
to_bytes(p) ==
    CASE p.op = "RRQ" -> rw_packet_bytes(1, p.filename, p.mode, p.options)
      [] p.op = "WRQ" -> rw_packet_bytes(2, p.filename, p.mode, p.options)
      [] p.op = "DATA" -> write_u16(3) \o write_u16(p.block_num) \o p.data
      [] p.op = "ACK" -> write_u16(4) \o write_u16(p.block_num)
      [] p.op = "ERROR" -> write_u16(5) \o write_u16(CodeNumber(p.code))
                           \o p.msg \o <<0>>
      [] p.op = "OACK" -> write_u16(6) \o OptionBytes(p.options)

\* read_rrq_packet and read_wrq_packet once the mode is parsed
RequestOf(op, strings, mode) ==
    IF ~mode.ok THEN mode
    ELSE Ok([op |-> op, filename |-> strings[1], mode |-> mode.v,
             options |-> read_options(SubSeq(strings, 3, Len(strings)))])

\* read_rrq_packet and read_wrq_packet on the strings of the datagram
RequestStrings(op, strings) ==
    IF Len(strings) < 2 THEN Err("StrOutOfBounds")
    ELSE RequestOf(op, strings, ModeOf(strings[2]))

\* read_rrq_packet and read_wrq_packet
read_request(op, bytes) ==
    IF Len(bytes) > 512 THEN Err("StrOutOfBounds")
    ELSE RequestStrings(op, Strings(bytes))

\* read_error_packet once the code is read
ErrorOf(number, strings) ==
    IF number >= Len(ErrorCodes) THEN Err("OpCodeOutOfBounds")
    ELSE IF strings = <<>> THEN Err("StrOutOfBounds")
    ELSE Ok(ERROR(ErrorCodes[number + 1], strings[1]))

\* the arms of Packet::read for the opcode and the bytes after it
ReadBody(opcode, bytes) ==
    IF opcode \notin 1..6 THEN Err("OpCodeOutOfBounds")
    ELSE IF opcode = 1 THEN read_request("RRQ", bytes)
    ELSE IF opcode = 2 THEN read_request("WRQ", bytes)
    ELSE IF opcode = 6 THEN Ok(OACK(read_options(Strings(bytes))))
    ELSE IF Len(bytes) < 2 THEN Err("IOError")
    ELSE IF opcode = 3
    THEN Ok(DATA(read_u16(bytes), SubSeq(bytes, 3, Len(bytes))))
    ELSE IF opcode = 4 THEN Ok(ACK(read_u16(bytes)))
    ELSE ErrorOf(read_u16(bytes), Strings(SubSeq(bytes, 3, Len(bytes))))

\* Packet::read
read(bytes) ==
    IF Len(bytes) < 2 THEN Err("IOError")
    ELSE ReadBody(read_u16(bytes), SubSeq(bytes, 3, Len(bytes)))

----------------------------------------------------------------------------
(* Two transfers at once: two peers, each with one request at a time and   *)
(* then in lock step, and the timer with the sends that may fail.          *)

\* the address of the second client
Other == "p3"

\* the requests of the two clients
PairRequests ==
    {RRQ(<<"a">>, "Octet", <<>>), RRQ(<<"a">>, "Octet", <<Blocksize(8)>>),
     WRQ(<<"a", ".">>, "Octet", <<>>)}

\* the datagram a peer in lock step sends next: the ACK of the last block
\* of a read, the one short block of a write
PairPackets(token) ==
    IF connections[token].transfer.kind = "Tx"
    THEN {ACK(connections[token].transfer.expected_block_num)}
    ELSE IF connections[token].transfer.kind = "Rx"
    THEN {DATA(connections[token].transfer.expected_block_num, <<1>>)}
    ELSE {}

InitPair == Started([readonly |-> FALSE, path |-> None], InitStore)

PairRequest ==
    \E c \in {Client, Other} :
        /\ \A t \in DOMAIN connections : connections[t].remote # c
        /\ generate_token(new_token, connections) <= MaxToken
        /\ \E packet \in PairRequests : HandleServerPacket(c, packet, "none", "none")

PairReceive ==
    \E token \in DOMAIN connections :
        \E packet \in PairPackets(token) :
            HandleConnectionPacket(token, connections[token].remote, packet, "none", "none")

PairExpire ==
    \E tokens \in ExpiryOrders :
        \E failing \in SUBSET {tokens[i] : i \in 1..Len(tokens)} :
            ProcessTimer(tokens, failing)

NextPair == PairRequest \/ PairReceive \/ PairExpire

SpecPair == InitPair /\ [][NextPair]_vars

----------------------------------------------------------------------------
(* The requests of a fresh server: every file name, mode and kind of      *)
(* option list, against both policies, and the first packet of the peer.  *)

\* every string over NameChars of length up to MaxNameLen
Names == UNION {[1..n -> NameChars] : n \in 0..MaxNameLen}

Modes == {"Octet", "Mail", "Netascii"}

OptionLists ==
    {<<>>, <<Blocksize(8)>>, <<TransferSize(3)>>, <<TimeoutSecs(2)>>,
     <<WindowSize(2), Blocksize(8)>>, <<TransferSize(0), Blocksize(8)>>}

AllRequests ==
    {RRQ(n, m, o) : n \in Names, m \in Modes, o \in OptionLists}
    \cup {WRQ(n, m, o) : n \in Names, m \in Modes, o \in OptionLists}
    \cup {DATA(1, <<9>>), ACK(0), ErrorPacket("NotDefined"), OACK(<<>>), Malformed}

\* the first datagram the peer of a new transfer may send
FirstPackets(token) ==
    IF connections[token].transfer.kind = "Tx"
    THEN {ACK(0), ACK(1)}
    ELSE {DATA(n, <<9>>) : n \in 0..2}

InitRequest ==
    \E ro \in BOOLEAN, path \in {None, Some(ServedDir)} :
        Started([readonly |-> ro, path |-> path], InitStore)

\* the first datagram a started server receives
AnyRequest ==
    /\ Fresh
    /\ last.op = "none"
    /\ \E packet \in AllRequests :
           \E fault \in (IF packet.op \in {"RRQ", "WRQ"} /\ packet.mode # "Octet"
                         THEN {"none"} ELSE RequestFaults(packet)),
              net \in RequestNetFaults(packet) :
               HandleServerPacket(Client, packet, fault, net)

FirstPacket ==
    /\ last.op = "server"
    /\ \E token \in DOMAIN connections :
           \E packet \in FirstPackets(token), net \in {"none", "send1"} :
               HandleConnectionPacket(token, Client, packet, "none", net)

NextRequest == AnyRequest \/ FirstPacket

SpecRequest == InitRequest /\ [][NextRequest]_vars

----------------------------------------------------------------------------
(* The read requests of a server into whose directory a file of one block *)
(* of the largest blocksize may be put: a DATA packet with more than       *)
(* MAX_PACKET_SIZE - 4 bytes does not fit the buffer of the dispatcher.    *)

\* the name and the length of the large file
LargeName == <<"a", "a", "a">>
LargeLen == MAX_BLOCKSIZE

\* the option lists of the read requests: none, a small blocksize, the
\* largest blocksize whose DATA fits the buffer, the two that do not, a
\* transfer size, and a window of two small blocks
LargeOptions ==
    {<<>>, <<Blocksize(8)>>, <<Blocksize(MAX_PACKET_SIZE - 4)>>,
     <<Blocksize(MAX_PACKET_SIZE - 3)>>, <<Blocksize(MAX_BLOCKSIZE)>>,
     <<TransferSize(0)>>, <<WindowSize(2), Blocksize(8)>>}

\* read requests for the large file, for a small one and for the directory
LargeRequests ==
    {RRQ(n, "Octet", o) : n \in {LargeName, <<"a">>, <<".">>}, o \in LargeOptions}

InitLarge == Started([readonly |-> FALSE, path |-> None], InitStore)

\* the large file is put into the directory of the server before a request
\* arrives
Install ==
    /\ last.op = "none"
    /\ connections = EmptyMap
    /\ <<LargeName>> \notin DOMAIN fs
    /\ fs' = WithFile(fs, <<LargeName>>, FileBytes(LargeLen))
    /\ UNCHANGED <<policy, connections, timers, new_token, hist, last>>

\* the first datagram the started server receives is a read request
LargeRequest ==
    /\ last.op = "none"
    /\ connections = EmptyMap
    /\ \E packet \in LargeRequests :
           \E fault \in RequestFaults(packet), net \in RequestNetFaults(packet) :
               HandleServerPacket(Client, packet, fault, net)

\* the first datagram of the peer of the read
LargeFirst ==
    /\ last.op = "server"
    /\ \E token \in DOMAIN connections :
           \E packet \in {ACK(0), ACK(1)}, fault \in {"none", "read1"},
              net \in {"none", "send1", "send2"} :
               HandleConnectionPacket(token, Client, packet, fault, net)

NextLarge == LargeRequest \/ LargeFirst \/ Install

SpecLarge == InitLarge /\ [][NextLarge]_vars

----------------------------------------------------------------------------
(* The server in time: the idle timer of a connection fires when Period    *)
(* ticks have passed since the connection was armed or its timer reset;     *)
(* every datagram handled on a connection resets its timer. One client, so  *)
(* one connection at a time, whose clock is kept in the latest event.       *)

\* the ticks passed since the timer was armed or reset
Elapsed == IF last.op = "tick" THEN last.token ELSE 0

\* a tick of the clock while a timer is armed and not yet due
Tick ==
    /\ timers # {}
    /\ Elapsed < Period
    /\ last' = Event("tick", Elapsed + 1, "-", NoPacket, "none", Err("-"),
                     <<>>, <<>>)
    /\ UNCHANGED <<policy, fs, connections, timers, new_token, hist>>

\* the timer is due: mio's timer.poll returns its token to process_timer
Due == Elapsed = Period /\ Expire

NextTimed == Request \/ Receive \/ ReceiveStray \/ Tick \/ Due

\* time passes and a due timer is processed
SpecTimed ==
    Init /\ [][NextTimed]_vars /\ WF_vars(Tick) /\ WF_vars(Due)

----------------------------------------------------------------------------
(* The tokens of many transfers: two clients that start a read, end it     *)
(* with an ERROR or let it time out, and start again, so that the counter   *)
(* of generate_token runs through its values and wraps.                     *)

InitToken == Started([readonly |-> FALSE, path |-> None], InitStore)

TokenRequest ==
    \E c \in {Client, Other} :
        /\ \A t \in DOMAIN connections : connections[t].remote # c
        /\ TokensLeft(connections)
        /\ HandleServerPacket(c, RRQ(<<"a">>, "Octet", <<>>), "none", "none")

TokenReceive ==
    \E token \in DOMAIN connections :
        /\ ~is_done(connections[token].transfer)
        /\ HandleConnectionPacket(token, connections[token].remote,
                                  ErrorPacket("NotDefined"), "none", "none")

TokenExpire == \E tokens \in ExpiryOrders : ProcessTimer(tokens, {})

NextToken == TokenRequest \/ TokenReceive \/ TokenExpire

SpecToken == InitToken /\ [][NextToken]_vars

----------------------------------------------------------------------------
(* Transfers at the wrap of the block numbers: a long read that has sent   *)
(* its blocks up to 65533 or 65534 and has the last 17 bytes of its file    *)
(* left to read (the store holds this end of the file), and a long write    *)
(* that expects block 65534 or 65535 (the store holds what is written from  *)
(* here on). Blocks are 8 bytes; the peer sends what ClientPackets allows.  *)

\* the block numbers a long transfer may have reached
WrapBlocks == {U16 - 3, U16 - 2, U16 - 1}

\* the file a long write fills
Sink == << <<"a", ".">> >>

\* the meta of a transfer with blocks of 8 bytes and the window w
WrapMeta(w) == [NewMeta EXCEPT !.blocksize = 8, !.window_size = w]

\* a read that has emitted the blocks up to e, with window w
LongRead(e, w) ==
    [NewTx(Handle(<< <<"a">> >>), WrapMeta(w)) EXCEPT !.expected_block_num = e]

\* a write that expects block e
LongWrite(e, w) ==
    [kind |-> "Rx", fwrite |-> Handle(Sink), expected_block_num |-> e,
     meta |-> WrapMeta(w)]

\* the last datagrams of a transfer: the w blocks of a read up to e, the
\* ACK of the block before e of a write
LastOf(xfer, e, w) ==
    IF xfer.kind = "Tx"
    THEN [i \in 1..w |-> DATA(e - w + i, FullBlock(i, 8))]
    ELSE <<ACK(e - 1)>>

\* the server with one connection, of a transfer near the wrap
Running(xfer, e, w) ==
    /\ policy = [readonly |-> FALSE, path |-> None]
    /\ fs = WithFile(InitStore, Sink, <<>>)
    /\ new_token = FirstToken + 2
    /\ connections =
           [create_connection(EmptyMap, FirstToken + 2, xfer, ACK(0), Client)
               EXCEPT ![FirstToken + 2].last_packets = LastOf(xfer, e, w)]
    /\ timers = {FirstToken + 2}
    /\ hist = [t \in {FirstToken + 2} |-> NewHist(ACK(0))]
    /\ last = NoEvent

InitWrap ==
    \E e \in WrapBlocks, w \in 1..2, xfer \in {"Tx", "Rx"} :
        Running(IF xfer = "Tx" THEN LongRead(e, w) ELSE LongWrite(e, w), e, w)

NextWrap == Receive

SpecWrap == InitWrap /\ [][NextWrap]_vars

----------------------------------------------------------------------------
(* A windowed read of a longer file: the file a of 49 bytes is read in     *)
(* blocks of 8 bytes (six full blocks and a last one of one byte) with a    *)
(* window of 2 or 3; the peer acknowledges any block of the window the     *)
(* server has sent last, and the idle timer may expire.                     *)

\* the length of the file read
LongLen == 49

\* the number of its last block
LastBlock == LongLen \div 8 + 1

WindowStore == WithFile(InitStore, << <<"a">> >>, FileBytes(LongLen))

\* block i of the file
FileBlock(i) ==
    DATA(i, SubSeq(FileBytes(LongLen), (i - 1) * 8 + 1, Min(i * 8, LongLen)))

InitWindow == Started([readonly |-> FALSE, path |-> None], WindowStore)

WindowRequest ==
    /\ last.op = "none"
    /\ \E w \in {2, 3} :
           HandleServerPacket(Client,
                              RRQ(<<"a">>, "Octet", <<WindowSize(w), Blocksize(8)>>),
                              "none", "none")

WindowReceive ==
    \E token \in DOMAIN connections :
        /\ ~is_done(connections[token].transfer)
        /\ \E k \in 0..Min(connections[token].transfer.meta.window_size - 1,
                         connections[token].transfer.expected_block_num) :
               HandleConnectionPacket(
                   token, Client,
                   ACK((connections[token].transfer.expected_block_num + U16 - k)
                           % U16),
                   "none", "none")

WindowExpire == \E tokens \in ExpiryOrders : ProcessTimer(tokens, {})

NextWindow == WindowRequest \/ WindowReceive \/ WindowExpire

SpecWindow == InitWindow /\ [][NextWindow]_vars

----------------------------------------------------------------------------
(* Reads of files that are whole multiples of the block size: the file a   *)
(* is empty and the file aa holds two blocks of 8 bytes; the peer sends     *)
(* the ACKs around the block the server has sent last, and the idle timer  *)
(* may expire.                                                              *)

ExactStore == WithFile(InitStore, << <<"a">> >>, FileBytes(0))

InitExact == Started([readonly |-> FALSE, path |-> None], ExactStore)

ExactRequest ==
    /\ last.op = "none"
    /\ \E n \in {<<"a">>, <<"a", "a">>} :
           \E o \in {<<>>, <<Blocksize(8)>>, <<WindowSize(2), Blocksize(8)>>} :
               HandleServerPacket(Client, RRQ(n, "Octet", o), "none", "none")

ExactReceive ==
    \E token \in DOMAIN connections :
        \E packet \in {p \in ClientPackets(token) : p.op = "ACK"} :
            HandleConnectionPacket(token, Client, packet, "none", "none")

ExactExpire == \E tokens \in ExpiryOrders : ProcessTimer(tokens, {})

NextExact == ExactRequest \/ ExactReceive \/ ExactExpire

SpecExact == InitExact /\ [][NextExact]_vars

----------------------------------------------------------------------------
(* The codec at work: a packet encoded and decoded again, and a request    *)
(* with a blksize option received as a datagram and served.                *)

\* the options of the packets encoded
CodecOptions ==
    {Blocksize(v) : v \in {0, 7, 8, 512, MAX_BLOCKSIZE, MAX_BLOCKSIZE + 1, U16 - 1}}
    \cup {TransferSize(0), TransferSize(99999), Timeout(0), Timeout(255)}

CodecOptionLists ==
    {<<>>} \cup {<<o>> : o \in CodecOptions}
    \cup {<<o, q>> : o \in CodecOptions, q \in CodecOptions}

\* the file names and messages of the packets encoded: "", "a", "a/." and
\* one with a zero byte
CodecStrings == {<<>>, <<97>>, <<97, 47, 46>>, <<97, 0>>}

\* the packets encoded
CodecPackets ==
    {RRQ(f, m, o) : f \in CodecStrings, m \in Modes, o \in CodecOptionLists}
    \cup {WRQ(f, m, o) : f \in CodecStrings, m \in Modes, o \in CodecOptionLists}
    \cup {DATA(n, d) : n \in {0, 1, 255, 256, U16 - 1},
                       d \in {<<>>, <<0>>, <<0, 255, 10>>}}
    \cup {ACK(n) : n \in {0, 1, 255, 256, U16 - 1}}
    \cup {ERROR(ErrorCodes[i], m) : i \in 1..Len(ErrorCodes), m \in CodecStrings}
    \cup {OACK(o) : o \in CodecOptionLists}

\* the values of the blksize option of the datagrams: 7, 8, 512, 65464,
\* 65465, 65535, 65536, 0, the empty string, cat, +8, 008, -8, 8x, the byte
\* ff, the letter e with an acute accent, 8 before half of that letter, and
\* the byte ff before a second blksize option of 8, which is not read
\* because reading the options ends at the string that is not UTF-8
ValueStrings ==
    {<<55>>,
     <<56>>,
     <<53, 49, 50>>,
     <<54, 53, 52, 54, 52>>,
     <<54, 53, 52, 54, 53>>,
     <<54, 53, 53, 51, 53>>,
     <<54, 53, 53, 51, 54>>,
     <<48>>,
     <<>>,
     <<99, 97, 116>>,
     <<43, 56>>,
     <<48, 48, 56>>,
     <<45, 56>>,
     <<56, 120>>,
     <<255>>,
     <<195, 169>>,
     <<56, 195>>,
     <<255, 0>> \o StrBlksize \o <<0, 56>>}

\* the bytes of a request for the file a (to read) or a. (to write) with one
\* option
RequestBytes(opcode, name, value) ==
    write_u16(opcode) \o (IF opcode = 1 THEN <<97>> ELSE <<97, 46>>) \o <<0>>
    \o StrOctet \o <<0>> \o name \o <<0>> \o value \o <<0>>

\* the character of a byte of a file name
CharOf(b) == CASE b = 97 -> "a" [] b = 46 -> "." [] b = 47 -> "/"

\* what handle_server_packet passes to rx_initial for what Packet::read
\* returned: the file name is read as a path
AsRequest(r) ==
    IF r.ok
    THEN [r.v EXCEPT !.filename = [i \in 1..Len(@) |-> CharOf(@[i])]]
    ELSE Malformed

\* the record of an event of the codec: the packet encoded, the bytes, the
\* value of the option of a datagram, and what Packet::read returned
CodecEvent(op, pkt, bytes, value, ret) ==
    [op |-> op, pkt |-> pkt, bytes |-> bytes, value |-> value, ret |-> ret]

InitCodec == Started([readonly |-> FALSE, path |-> None], InitStore)

Encode ==
    /\ last.op = "none"
    /\ \E p \in CodecPackets :
           last' = CodecEvent("encoded", p, to_bytes(p), <<>>, Err("-"))
    /\ UNCHANGED <<policy, fs, connections, timers, new_token, hist>>

Decode ==
    /\ last.op = "encoded"
    /\ last' = CodecEvent("decoded", last.pkt, last.bytes, <<>>, read(last.bytes))
    /\ UNCHANGED <<policy, fs, connections, timers, new_token, hist>>

Arrive ==
    /\ last.op = "none"
    /\ \E opcode \in {1, 2}, name \in {StrBlksize, <<66, 76, 75, 83, 73, 90, 69>>},
          value \in ValueStrings :
           last' = CodecEvent("datagram", NoPacket,
                              RequestBytes(opcode, name, value), value, Err("-"))
    /\ UNCHANGED <<policy, fs, connections, timers, new_token, hist>>

Serve ==
    /\ last.op = "datagram"
    /\ \E net \in RequestNetFaults(AsRequest(read(last.bytes))) :
           HandleServerPacket(Client, AsRequest(read(last.bytes)), "none", net)

NextCodec == Encode \/ Decode \/ Arrive \/ Serve

SpecCodec == InitCodec /\ [][NextCodec]_vars

----------------------------------------------------------------------------
(* Properties of request handling (SpecRequest) *)

\* the event handled last is a request of this kind on a listening socket
IsRequest(kind) == last.op = "server" /\ last.pkt.op = kind

\* ... in octet mode, the only mode in which rx_initial goes on to the file
OctetRequest(kind) == IsRequest(kind) /\ last.pkt.mode = "Octet"

\* in the event e the dispatcher sent the one reply p to the sender, and
\* nothing else; it sent nothing when the socket of a new transfer could not
\* be made, when the reply does not fit the buffer or when its send_to
\* failed, and then it returned that error
SentOnlyIn(e, p) ==
    IF Fits(p) /\ e.net \notin {"socket", "send1"}
    THEN e.sent = <<Datagram(e.src, p)>> /\ e.io = "none"
    ELSE e.sent = <<>> /\ e.io = (IF e.net = "socket" \/ Fits(p)
                                  THEN "Io" ELSE "Packet")

\* ... in the last event
SentOnly(p) == SentOnlyIn(last, p)

\* the packet rx_initial answered the last request with
Reply == last.ret.res.v

\* rx_initial answered the last request with this ERROR, and the dispatcher
\* sent it to the sender, alone, or nothing when a call of its own failed
RepliedError(code) ==
    /\ last.ret.res.ok
    /\ Reply.op = "ERROR"
    /\ Reply.code = code
    /\ SentOnly(Reply)

\* the last request gave no transfer and no connection
NoTransfer == last.ret.xfer = None /\ connections = EmptyMap

\* the file name has a separator-delimited piece that is exactly ".."
HasParentPiece(name) ==
    \E i, j \in 1..Len(name) :
        /\ j = i + 1
        /\ name[i] = "." /\ name[j] = "."
        /\ (i = 1 \/ name[i - 1] = "/")
        /\ (j = Len(name) \/ name[j + 1] = "/")

\* the file name has ".." somewhere in it
ContainsDotDot(name) ==
    \E i \in 1..(Len(name) - 1) : name[i] = "." /\ name[i + 1] = "."

StartsWithSlash(name) == Len(name) > 0 /\ name[1] = "/"

\* the error code a request that cannot get its file is answered with
FileError(kind) == IF kind = "RRQ" THEN "FileNotFound" ELSE "FileExists"

\* C1: an RRQ whose open_read fails is answered ERROR(FileNotFound), a WRQ
\* whose create_new fails (the file exists, the policy refuses, the system
\* call fails) is answered ERROR(FileExists); neither returns a Transfer and
\* the dispatcher installs no connection.  The dispatcher sends that ERROR
\* and nothing else, or nothing when its socket or its send_to fails.
C1_FailedOpenOrCreate ==
    /\ (/\ OctetRequest("RRQ")
        /\ ~ProxyOpenRead(policy, InitStore, last.pkt.filename, last.fault).ok)
       => RepliedError("FileNotFound") /\ NoTransfer
    /\ (/\ OctetRequest("WRQ")
        /\ ~ProxyCreateNew(policy, InitStore, last.pkt.filename,
                           TsizeOf(None, last.pkt.options), last.fault).ok)
       => RepliedError("FileExists") /\ NoTransfer

\* a WRQ for a file that exists, to a server that may write
C1_Witness ==
    /\ OctetRequest("WRQ")
    /\ ~policy.readonly /\ last.fault = "none"
    /\ OsKey(FullPath(policy, last.pkt.filename)) \in DOMAIN InitStore
    /\ last.calls # <<>>
    /\ RepliedError("FileExists") /\ NoTransfer
    /\ last.sent # <<>>

\* C2 as stated: an octet request whose file name contains "..", or starts
\* with "/", never reaches the underlying capability and is answered
\* FileNotFound (RRQ) or FileExists (WRQ) without a Transfer.
C2_AnyDotDotRejected ==
    (/\ OctetRequest("RRQ") \/ OctetRequest("WRQ")
     /\ ContainsDotDot(last.pkt.filename) \/ StartsWithSlash(last.pkt.filename))
    => /\ last.calls = <<>>
       /\ RepliedError(FileError(last.pkt.op))
       /\ NoTransfer

\* C2, amended: an octet request whose file name starts with "/" or has a
\* piece that is exactly ".." never reaches the underlying capability and is
\* answered FileNotFound (RRQ) or FileExists (WRQ) without a Transfer.  The
\* dispatcher sends that ERROR and nothing else, or nothing when its socket
\* or its send_to fails.
C2_ParentPieceRejected ==
    (/\ OctetRequest("RRQ") \/ OctetRequest("WRQ")
     /\ HasParentPiece(last.pkt.filename) \/ StartsWithSlash(last.pkt.filename))
    => /\ last.calls = <<>>
       /\ RepliedError(FileError(last.pkt.op))
       /\ NoTransfer
       /\ fs = InitStore

\* a relative name that goes up, asked of a server that may write
C2_Witness ==
    /\ OctetRequest("WRQ")
    /\ ~policy.readonly
    /\ HasParentPiece(last.pkt.filename)
    /\ ~StartsWithSlash(last.pkt.filename)
    /\ Len(last.pkt.filename) > 2
    /\ last.calls = <<>>
    /\ RepliedError("FileExists") /\ NoTransfer

\* the result of rx_initial that the dispatcher sees
Outcome(r) == [xfer |-> r.xfer, res |-> r.res]

\* C3 as stated: a readonly server answers every WRQ with ERROR(FileExists),
\* creates no Transfer and no connection and never calls the underlying
\* create_new; an RRQ is handled as it is without the flag.
C3_ReadonlyRefusesEveryWrq ==
    /\ (policy.readonly /\ IsRequest("WRQ"))
       => RepliedError("FileExists") /\ NoTransfer /\ last.calls = <<>>
    /\ IsRequest("RRQ")
       => last.ret = Outcome(rx_initial([policy EXCEPT !.readonly = ~@], InitStore,
                                        last.pkt, last.fault))

\* C3, amended: a readonly server answers every octet-mode WRQ with
\* ERROR(FileExists) and a WRQ in another mode with the error of that mode;
\* it creates no Transfer and no connection for any WRQ, never calls the
\* underlying create_new and leaves the files as they were; an RRQ is handled
\* as it is without the flag.  The dispatcher sends the ERROR and nothing
\* else, or nothing when its socket or its send_to fails.
C3_ReadonlyRefusesOctetWrq ==
    /\ (policy.readonly /\ IsRequest("WRQ"))
       => /\ RepliedError(CASE last.pkt.mode = "Octet" -> "FileExists"
                            [] last.pkt.mode = "Mail" -> "NoUser"
                            [] OTHER -> "NotDefined")
          /\ NoTransfer
          /\ last.calls = <<>>
          /\ fs = InitStore
    /\ IsRequest("RRQ")
       => /\ last.ret = Outcome(rx_initial([policy EXCEPT !.readonly = ~@],
                                           InitStore, last.pkt, last.fault))
          /\ fs = InitStore

\* a readonly server refused a WRQ for a file it could have created
C3_Witness ==
    /\ policy.readonly
    /\ OctetRequest("WRQ")
    /\ last.fault = "none"
    /\ CanCreate(InitStore, FullPath(policy, last.pkt.filename))
    /\ ~PolicyRejects(last.pkt.filename)
    /\ last.pkt.options # <<>>
    /\ RepliedError("FileExists") /\ NoTransfer

\* C4: rx_initial rejects, without a call on the I/O capability and without
\* a Transfer, a packet that is no request (the NotInitiatingPacket error:
\* nothing is sent, no connection) and a request in mode Mail (ERROR(NoUser))
\* or Netascii (ERROR(NotDefined)).  The dispatcher sends the ERROR of the
\* mode and nothing else, or nothing when its socket or its send_to fails.
C4_RejectedBeforeIo ==
    /\ (last.op = "server" /\ last.pkt.op \in {"DATA", "ACK", "ERROR", "OACK"})
       => /\ last.ret.res = Err("NotIniatingPacket")
          /\ last.sent = <<>>
          /\ NoTransfer /\ last.calls = <<>> /\ fs = InitStore
    /\ (last.op = "server" /\ last.pkt.op \in {"RRQ", "WRQ"}
        /\ last.pkt.mode = "Mail")
       => /\ RepliedError("NoUser")
          /\ NoTransfer /\ last.calls = <<>> /\ fs = InitStore
    /\ (last.op = "server" /\ last.pkt.op \in {"RRQ", "WRQ"}
        /\ last.pkt.mode = "Netascii")
       => /\ RepliedError("NotDefined")
          /\ NoTransfer /\ last.calls = <<>> /\ fs = InitStore

\* a mail request for a file that is there
C4_Witness ==
    /\ IsRequest("RRQ")
    /\ last.pkt.mode = "Mail"
    /\ last.pkt.filename = <<"a">>
    /\ RepliedError("NoUser")
    /\ connections = EmptyMap

\* the last request was accepted: rx_initial returned a Transfer
Accepted(kind) == IsRequest(kind) /\ last.ret.xfer # None

\* the last event is the first datagram of the peer of a transfer of this kind
FirstOf(kind) ==
    /\ last.op = "conn"
    /\ last.pre[last.token].transfer.kind = kind
    /\ last.was[last.token].data = <<>>

\* C5: an accepted WRQ is in octet mode and returns an Rx Transfer; its reply
\* is ACK(0) exactly when the request had no option and OACK of the options
\* exactly when it had one or more; the Transfer then takes DATA block 1,
\* which it acknowledges, and no other block.  The dispatcher sends the
\* reply and installs the connection, or sends nothing and installs none
\* when its socket or its send_to fails.
C5_WriteReply ==
    /\ Accepted("WRQ")
       => /\ last.pkt.mode = "Octet"
          /\ last.ret.xfer[1].kind = "Rx"
          /\ last.ret.res.ok
          /\ (Reply = ACK(0)) <=> (last.pkt.options = <<>>)
          /\ (Reply = OACK(last.pkt.options)) <=> (last.pkt.options # <<>>)
          /\ SentOnly(Reply)
          /\ IF last.io = "none"
             THEN /\ DOMAIN connections = {last.token}
                  /\ connections[last.token].transfer = last.ret.xfer[1]
             ELSE connections = EmptyMap
    /\ (FirstOf("Rx") /\ last.pkt.op = "DATA")
       => /\ last.ret.ok
          /\ Len(last.ret.v) = 2
          /\ last.ret.v[1].item = "Packet" /\ last.ret.v[2] = DoneItem
          /\ (last.ret.v[1].p = ACK(last.pkt.block_num)) <=> (last.pkt.block_num = 1)
          /\ (last.ret.v[1].p.op = "ERROR") <=> (last.pkt.block_num # 1)
          /\ SentOnly(last.ret.v[1].p)

\* a WRQ with options was answered by OACK and block 1 was then acknowledged
C5_Witness ==
    /\ FirstOf("Rx")
    /\ last.pre[last.token].last_packets = <<OACK(<<TransferSize(3)>>)>>
    /\ last.pkt = DATA(1, <<9>>)
    /\ last.sent = <<Datagram(Client, ACK(1))>>

\* the options an RRQ is granted: those it asked for other than tsize, then
\* tsize with the length of the file when it asked for tsize and the length
\* is known
Granted(options, len) ==
    SelectSeq(options, LAMBDA o : o.name # "TransferSize")
    \o (IF len # None /\ \E i \in 1..Len(options) : options[i].name = "TransferSize"
        THEN <<TransferSize(len[1])>> ELSE <<>>)

\* the bytes of the file of a key in the store the last event found (a
\* directory has none)
BytesOf(key) == IF key \in DOMAIN last.disk THEN last.disk[key] ELSE <<>>

\* the first n bytes of the file a request names
FirstBytes(name, n) ==
    LET bytes == BytesOf(OsKey(FullPath(policy, name)))
    IN  SubSeq(bytes, 1, Min(n, Len(bytes)))

\* the dispatcher sent the first packet p of the response of the last event
\* to the sender; it sent nothing when that packet does not fit the buffer
\* or when its send_to failed, and then it returned that error
SentFirst(p) ==
    IF Fits(p) /\ last.net # "send1"
    THEN last.sent # <<>> /\ last.sent[1] = Datagram(last.src, p)
    ELSE last.sent = <<>> /\ last.io = (IF Fits(p) THEN "Io" ELSE "Packet")

\* an accepted RRQ is in octet mode and returns a Tx Transfer; its reply is
\* DATA(1, first block) exactly when no option was granted and OACK of the
\* granted options exactly when one or more were; after an OACK nothing was
\* read or emitted.  The dispatcher sends the reply and installs the
\* connection, or sends nothing and installs none when its socket or its
\* send_to fails.
ReadReplied ==
    Accepted("RRQ")
    => LET xfer == last.ret.xfer[1]
           len == ProxyOpenRead(policy, last.disk, last.pkt.filename,
                                last.fault).len
           granted == Granted(last.pkt.options, len)
       IN  /\ last.pkt.mode = "Octet"
           /\ xfer.kind = "Tx"
           /\ last.ret.res.ok
           /\ (Reply = DATA(1, FirstBytes(last.pkt.filename, DefaultBlocksize)))
              <=> (granted = <<>>)
           /\ (Reply = OACK(granted)) <=> (granted # <<>>)
           /\ Reply.op = "OACK"
              => /\ xfer.fread.pos = 0
                 /\ xfer.expected_block_num = 0
                 /\ ~xfer.sent_final
           /\ SentOnly(Reply)
           /\ IF last.io = "none"
              THEN /\ DOMAIN connections = {last.token}
                   /\ connections[last.token].transfer = xfer
                   /\ Reply.op = "OACK" => hist[last.token].data = <<>>
              ELSE connections = EmptyMap

\* the last event is the ACK(0) of the client of a read that was answered
\* by an OACK
AckOfOack ==
    /\ FirstOf("Tx")
    /\ last.pre[last.token].last_packets[1].op = "OACK"
    /\ last.pkt = ACK(0)

\* DATA block 1 of the read the last event belongs to: the first blocksize
\* bytes of its file
FirstBlock ==
    LET tx == last.pre[last.token].transfer
        bytes == BytesOf(tx.fread.key)
    IN  DATA(1, SubSeq(bytes, 1, Min(tx.meta.blocksize, Len(bytes))))

\* the response to the last event begins with DATA block 1, which the
\* dispatcher sends unless it does not fit the buffer or the send_to fails
YieldsFirstBlock ==
    /\ last.ret.ok
    /\ last.ret.v # <<>>
    /\ last.ret.v[1] = PacketItem(FirstBlock)
    /\ SentFirst(FirstBlock)

C6_WitnessOversize ==
    /\ AckOfOack
    /\ last.pre[last.token].last_packets = <<OACK(<<Blocksize(MAX_BLOCKSIZE)>>)>>
    /\ last.fault = "none" /\ last.net = "none"
    /\ last.ret = Ok(<<PacketItem(DATA(1, FileBytes(LargeLen)))>>)
    /\ last.sent = <<>> /\ last.io = "Packet"

----------------------------------------------------------------------------
(* Properties of transfers (Spec) *)

RECURSIVE Concat(_)
\* the payloads of a sequence of blocks, one after the other
Concat(blocks) ==
    IF blocks = <<>> THEN <<>> ELSE Head(blocks).data \o Concat(Tail(blocks))

\* the blocks are numbered 1, 2, ... in order
Numbered(blocks) == \A i \in 1..Len(blocks) : blocks[i].block_num = i

\* the last event is a datagram of the peer of a transfer of this kind
PeerEvent(kind) ==
    /\ last.op = "conn"
    /\ last.src = last.pre[last.token].remote
    /\ last.pkt # Malformed
    /\ last.pre[last.token].transfer.kind = kind

\* the last event is the DATA block a write transfer expected and wrote
WroteBlock ==
    /\ PeerEvent("Rx")
    /\ last.pkt.op = "DATA"
    /\ last.pkt.block_num = last.pre[last.token].transfer.expected_block_num
    /\ last.fault = "none"

\* C7: when a write transfer completes on a short DATA block, the file holds
\* exactly the payloads of blocks 1..k in order, each written once, and each
\* accepted block was answered with the ACK of its number, ACK(k) last.
C7_SinkHoldsThePayloads ==
    /\ WroteBlock => last.sent = <<Datagram(Client, ACK(last.pkt.block_num))>>
    /\ (WroteBlock /\ is_done(connections[last.token].transfer))
       => LET h == hist[last.token]
              rx == last.pre[last.token].transfer
          IN  /\ Len(last.pkt.data) < rx.meta.blocksize
              /\ Numbered(h.data)
              /\ h.data[Len(h.data)] = Block(last.pkt)
              /\ fs[rx.fwrite.key] = Concat(h.data)

\* the last event is a datagram of a reader that has acknowledged every block
\* in order, from the start, with nothing lost or failing
LockstepEvent == PeerEvent("Tx") /\ hist[last.token].lock

\* C8: with a reader that acknowledges each block in order over a lossless
\* channel, the server emits blocks 1..k that concatenate to the file, all of
\* blocksize bytes but the shorter last one, and the transfer is Complete,
\* with nothing more sent, on ACK(k) and not before.
C8_LockstepRead ==
    LockstepEvent
    => LET h == hist[last.token]
           tx == last.pre[last.token].transfer
           file == fs[tx.fread.key]
           n == Len(h.data)
           all == Concat(h.data)
           final == n > 0 /\ Len(h.data[n].data) < tx.meta.blocksize
       IN  /\ Numbered(h.data)
           /\ \A i \in 1..(n - 1) : Len(h.data[i].data) = tx.meta.blocksize
           /\ Len(all) <= Len(file) /\ all = SubSeq(file, 1, Len(all))
           /\ is_done(connections[last.token].transfer)
              <=> (final /\ ~h.oack /\ h.acks = n)
           /\ is_done(connections[last.token].transfer)
              => all = file /\ last.sent = <<>>

\* the datagrams the last event sent to the peer of a connection it found
SentTo(t) ==
    LET to == SelectSeq(last.sent, LAMBDA d : d.to = last.pre[t].remote)
    IN  [i \in 1..Len(to) |-> to[i].pkt]

\* C9: the first expiration of the timer after a connection was created or
\* last replied re-sends the datagrams sent last, sets timed_out and keeps
\* the connection with its timer set; the second in a row sends nothing and
\* removes the connection.
C9_ExpiryResendsThenCloses ==
    (last.op = "timer" /\ last.fault = {})
    => \A i \in 1..Len(last.token) :
           LET t == last.token[i]
           IN  (t \in DOMAIN last.pre /\ ~is_done(last.pre[t].transfer))
               => /\ last.was[t].idle = 0
                     => /\ SentTo(t) = last.was[t].wire
                        /\ t \in DOMAIN connections
                        /\ ~is_done(connections[t].transfer)
                        /\ connections[t].transfer.meta.timed_out
                        /\ t \in timers
                  /\ last.was[t].idle = 1
                     => /\ SentTo(t) = <<>>
                        /\ t \notin DOMAIN connections
                        /\ t \notin timers

\* what Transfer::rx2 and the dispatcher of tftp_server.rs do with an ERROR
\* packet received on a running transfer, Rx or Tx, whatever its block
\* numbers and timed_out: the response is [Done], nothing is sent and the
\* Transfer is Complete
ErrorEndsTransfer ==
    (/\ PeerEvent("Rx") \/ PeerEvent("Tx")
     /\ last.pkt.op = "ERROR")
    => /\ last.ret = Ok(<<DoneItem>>)
       /\ last.sent = <<>>
       /\ last.io = "none"
       /\ connections[last.token].transfer = Complete

\* C11: Complete is absorbing and silent: a packet of any kind received from
\* the peer on a Complete transfer, and an expiry of its timer, give only
\* Done; nothing is sent, no RepeatLast is answered, and the Transfer is
\* still Complete.
C11_CompleteIsAbsorbing ==
    /\ PeerEvent("Complete")
       => /\ last.ret.ok
          /\ last.ret.v = <<DoneItem>>
          /\ last.sent = <<>>
          /\ connections[last.token].transfer = Complete
    /\ last.op = "timer"
       => \A i \in 1..Len(last.token) :
              (/\ last.token[i] \in DOMAIN last.pre
               /\ is_done(last.pre[last.token[i]].transfer))
              => /\ timeout_expired(last.pre[last.token[i]].transfer)
                        = [xfer |-> Complete, result |-> "Done"]
                 /\ SentTo(last.token[i]) = <<>>
                 /\ last.token[i] \notin DOMAIN connections

\* a Complete transfer heard a read request of its peer
C11_Witness ==
    /\ PeerEvent("Complete")
    /\ last.pkt.op = "RRQ"
    /\ connections[last.token].transfer = Complete

\* C12: a datagram that arrives on the socket of a transfer from an address
\* other than the remembered peer is answered with ERROR(UnknownID) sent to
\* that address and not to the peer; the connection is kept, with its
\* Transfer and its last_packets as they were.
C12_StrayAnsweredAtItsAddress ==
    (/\ last.op = "conn"
     /\ last.src # last.pre[last.token].remote)
    => /\ last.sent = <<Datagram(last.src, ErrorPacket("UnknownID"))>>
       /\ connections = last.pre

\* the ACK of the last event is in the serial range (E - W, E] of the read
\* transfer it arrived on, E being its last emitted block and W its window
AckInWindow ==
    (last.pre[last.token].transfer.expected_block_num + U16 - last.pkt.block_num)
        % U16 < last.pre[last.token].transfer.meta.window_size

\* C13: on a read transfer with window W and last emitted block E, an ACK(n)
\* with n outside the serial range (E - W, E] is answered
\* [ERROR(UnknownID), Done] whatever W and sent_final are: no DATA is read or
\* emitted and the Transfer is Complete.
C13_AckOutsideWindowIsError ==
    (/\ PeerEvent("Tx")
     /\ last.pkt.op = "ACK"
     /\ ~AckInWindow)
    => /\ last.ret = Ok(<<PacketItem(ERROR("UnknownID", "Incorrect block num in ACK")),
                         DoneItem>>)
       /\ connections[last.token].transfer = Complete
       /\ \A i \in 1..Len(last.sent) : last.sent[i].pkt.op # "DATA"

\* the DATA of the last event is in the serial range (L, L + W] of the write
\* transfer it arrived on, L being its last received block and W its window
DataInWindow ==
    (last.pkt.block_num + U16 + 1
        - last.pre[last.token].transfer.expected_block_num) % U16
    \in 1..last.pre[last.token].transfer.meta.window_size

\* C14: on a write transfer with last received block L and window W, a
\* DATA(n, d) with n outside the serial range (L, L + W], a duplicate of block
\* L included, yields [ERROR(IllegalTFTP, "Data packet lost"), Done]: nothing
\* is written and the Transfer is Complete.  The dispatcher sends that ERROR
\* and nothing else, or nothing when its send_to fails.
C14_DataOutsideWindowIsError ==
    (/\ PeerEvent("Rx")
     /\ last.pkt.op = "DATA"
     /\ ~DataInWindow)
    => /\ last.ret = Ok(<<PacketItem(ERROR("IllegalTFTP", "Data packet lost")),
                         DoneItem>>)
       /\ SentOnly(ERROR("IllegalTFTP", "Data packet lost"))
       /\ fs = last.disk
       /\ connections[last.token].transfer = Complete

\* a write transfer with a window of 2 that had received block 1 was sent
\* block 1 again
C14_Witness ==
    /\ PeerEvent("Rx")
    /\ last.pkt.op = "DATA"
    /\ last.pre[last.token].transfer.meta.window_size = 2
    /\ last.pre[last.token].transfer.expected_block_num = 2
    /\ last.pkt.block_num = 1
    /\ last.pkt.data # <<>>
    /\ connections[last.token].transfer = Complete

\* the last event is an ACK of the peer of a write transfer, or a DATA of
\* the peer of a read transfer
WrongDirection ==
    \/ PeerEvent("Rx") /\ last.pkt.op = "ACK"
    \/ PeerEvent("Tx") /\ last.pkt.op = "DATA"

\* C15: an ACK received on a write transfer and a DATA received on a read
\* transfer yield exactly [ERROR(IllegalTFTP), Done]; neither the sink nor
\* the source is touched and the Transfer is Complete.  The dispatcher sends
\* that ERROR and nothing else, or nothing when its send_to fails.
C15_WrongDirectionEndsTransfer ==
    WrongDirection
    => /\ last.ret = Ok(<<PacketItem(ErrorPacket("IllegalTFTP")), DoneItem>>)
       /\ SentOnly(ErrorPacket("IllegalTFTP"))
       /\ fs = last.disk
       /\ Dispatch(last.pre[last.token].transfer, last.pkt, last.disk,
                   last.fault).xfer = last.pre[last.token].transfer
       /\ connections[last.token].transfer = Complete

\* a write transfer that had received block 1 was sent an ACK
C15_Witness ==
    /\ PeerEvent("Rx")
    /\ last.pkt.op = "ACK"
    /\ last.pre[last.token].transfer.expected_block_num = 2
    /\ last.sent # <<>>
    /\ connections[last.token].transfer = Complete

\* the block number TftpServer keeps for a connection: the last block sent
\* of a read, the last block received of a write
BlockNumOf(xfer) ==
    IF xfer.kind = "Tx" THEN xfer.expected_block_num
    ELSE (xfer.expected_block_num + U16 - 1) % U16

\* TftpServer::handle_connection_packet of server.rs panics on the packet of
\* the last event in this build.  The timeout of the connection has fired
\* when the transfer is marked timed out, and a call of the handler fails
\* when the first read, the write or the first send_to of the event does.
HandlerPanics(build) ==
    ConnectionPanics(BlockNumOf(last.pre[last.token].transfer),
                     last.pre[last.token].transfer.kind,
                     last.pre[last.token].transfer.meta.timed_out,
                     last.pkt, build,
                     last.fault \in {"read1", "write"} \/ last.net = "send1")

\* C10: an ERROR packet received on a running transfer, Rx or Tx, whatever
\* its block numbers and timed_out, always ends the transfer without a
\* reply: Transfer::rx2 gives the response [Done], nothing is sent and the
\* Transfer is Complete, and the handler of server.rs, in a debug or in a
\* release build, does not panic on it.
C10_ErrorEndsTransfer ==
    /\ ErrorEndsTransfer
    /\ (/\ PeerEvent("Rx") \/ PeerEvent("Tx")
        /\ last.pkt.op = "ERROR")
       => \A build \in {"debug", "release"} : ~HandlerPanics(build)

\* C16: no datagram of a peer, of any kind and with any block number, makes
\* the dispatcher panic or leave its event loop: neither Transfer::rx nor the
\* handler of the connection, in a debug or in a release build, panics on a
\* decoded packet of a running transfer.  The timeout of the connection has
\* fired when the transfer is marked timed out, and a call of the handler
\* fails when the first read, the write or the first send_to of the event
\* does.
C16_NoDatagramStopsTheServer ==
    (PeerEvent("Tx") \/ PeerEvent("Rx"))
    => /\ Transfer_rx(rx2(last.pre[last.token].transfer, last.pkt, last.disk,
                          last.fault)).tag # "Panic"
       /\ \A build \in {"debug", "release"} :
              ~ConnectionPanics(BlockNumOf(last.pre[last.token].transfer),
                                last.pre[last.token].transfer.kind,
                                last.pre[last.token].transfer.meta.timed_out,
                                last.pkt, build,
                                last.fault \in {"read1", "write"}
                                    \/ last.net = "send1")

\* C17: a datagram of the remembered peer that does not decode is dropped:
\* nothing is sent, the Transfer and last_packets of the connection are as
\* they were, the connection stays in the map and the server keeps running.
C17_MalformedIsDropped ==
    (/\ last.op = "conn"
     /\ last.src = last.pre[last.token].remote
     /\ last.pkt = Malformed)
    => /\ last.sent = <<>>
       /\ last.token \in DOMAIN connections
       /\ connections = last.pre
       /\ fs = last.disk
       /\ RunContinues(last.ret)

\* a write transfer that had received block 1 was sent a datagram that does
\* not decode
C17_Witness ==
    /\ last.op = "conn"
    /\ last.src = last.pre[last.token].remote
    /\ last.pkt = Malformed
    /\ last.pre[last.token].transfer.kind = "Rx"
    /\ last.pre[last.token].transfer.expected_block_num = 2
    /\ connections[last.token].last_packets = <<ACK(1)>>

\* what process_timer would do with the token t had it expired alone
Alone(t) == TimerLoop(Drained(last.pre, last.armed, <<t>>), <<t>>, last.fault)

\* the connection of the token u is as the last event found it: its state,
\* its timeout, and nothing was sent to its peer
Untouched(u) ==
    /\ u \in DOMAIN connections
    /\ connections[u] = last.pre[u]
    /\ u \in timers <=> u \in last.armed
    /\ SentTo(u) = <<>>

\* the packets of a sequence of datagrams
PacketsOf(wire) == [i \in 1..Len(wire) |-> wire[i].pkt]

\* C18: transfers are independent under interleaving: an event of one
\* connection (a datagram, a request of another peer) leaves every other
\* connection, its timeout and its peer alone, and an expiry of the timer,
\* with or without sends that fail, does to each expired connection what it
\* would do had that connection expired alone.
C18_TransfersAreIndependent ==
    /\ last.op \in {"conn", "server"}
       => \A u \in DOMAIN last.pre \ {last.token} : Untouched(u)
    /\ last.op = "timer"
       => /\ \A u \in DOMAIN last.pre \ {last.token[i] : i \in 1..Len(last.token)} :
                 Untouched(u)
          /\ \A i \in 1..Len(last.token) :
                 /\ last.token[i] \in DOMAIN connections
                        <=> last.token[i] \in DOMAIN Alone(last.token[i]).connections
                 /\ last.token[i] \in DOMAIN connections
                        => connections[last.token[i]]
                               = Alone(last.token[i]).connections[last.token[i]]
                 /\ last.token[i] \in timers
                        <=> last.token[i] \in Alone(last.token[i]).timers
                 /\ SentTo(last.token[i]) = PacketsOf(Alone(last.token[i]).wire)

----------------------------------------------------------------------------
(* Properties of the codec (SpecCodec) *)

\* a string without a zero byte
Text(str) == \A i \in 1..Len(str) : str[i] # 0

\* a packet whose file name or message can be written as a zero-terminated
\* string
WellFormed(p) ==
    CASE p.op \in {"RRQ", "WRQ"} -> Text(p.filename)
      [] p.op = "ERROR" -> Text(p.msg)
      [] OTHER -> TRUE

\* the options of a packet
OptionsIn(p) == IF p.op \in {"RRQ", "WRQ", "OACK"} THEN p.options ELSE <<>>

\* every blocksize among the options of a packet is one a reader accepts
BlocksizesInRange(p) ==
    \A i \in 1..Len(OptionsIn(p)) :
        OptionsIn(p)[i].name = "Blocksize"
            => OptionsIn(p)[i].value \in 8..MAX_BLOCKSIZE

\* C19 as stated: every well-formed packet, whatever the values of its
\* options, is read back from its bytes as the same packet
C19_RoundTrip ==
    (last.op = "decoded" /\ WellFormed(last.pkt))
        => (last.ret.ok /\ last.ret.v = last.pkt)

\* C19: every well-formed packet whose blocksize options lie in 8..65464 is
\* read back from its bytes as the same packet
C19_RoundTripInRange ==
    (last.op = "decoded" /\ WellFormed(last.pkt) /\ BlocksizesInRange(last.pkt))
        => (last.ret.ok /\ last.ret.v = last.pkt)

\* a write request with the largest blocksize and a transfer size has been
\* encoded and read back
C19_Witness ==
    /\ last.op = "decoded"
    /\ last.pkt = WRQ(<<97, 47, 46>>, "Octet",
                      <<Blocksize(MAX_BLOCKSIZE), TransferSize(99999)>>)
    /\ last.ret.ok
    /\ last.ret.v = last.pkt

\* the digits of a string are decimal digits
AllDigits(str) == \A i \in 1..Len(str) : str[i] \in 48..57

RECURSIVE NumberFrom(_, _)
\* the number a string of decimal digits denotes after acc, at most 10^6
NumberFrom(str, acc) ==
    IF str = <<>> \/ acc >= 1000000
    THEN acc
    ELSE NumberFrom(Tail(str), acc * 10 + (Head(str) - 48))

\* the number a string denotes as a decimal integer (a sign + may lead it),
\* -1 when it is not one
NumberOf(str) ==
    LET digits == IF str # <<>> /\ Head(str) = 43 THEN Tail(str) ELSE str
    IN  IF digits # <<>> /\ AllDigits(digits) THEN NumberFrom(digits, 0) ELSE -1

\* C20: a request whose blksize option is a decimal integer in 8..65464 is
\* answered by an OACK that echoes the value and its transfer uses that
\* blocksize; with any other value the option is dropped, the request is
\* served as one without options (DATA block 1 of 512 bytes at most for a
\* read, ACK(0) for a write) and the transfer uses the blocksize 512.  The
\* dispatcher sends the reply and nothing else, or nothing when its socket
\* or its send_to fails.
C20_BlksizeBounds ==
    [][(last.op = "datagram" /\ last'.op = "server")
        => LET v == NumberOf(last.value)
               reply == last'.ret.res.v
               xfer == last'.ret.xfer[1]
           IN  /\ last'.ret.res.ok
               /\ SentOnlyIn(last', reply)
               /\ IF v \in 8..MAX_BLOCKSIZE
                  THEN /\ last'.pkt.options = <<Blocksize(v)>>
                       /\ reply = OACK(<<Blocksize(v)>>)
                       /\ xfer.meta.blocksize = v
                  ELSE /\ last'.pkt.options = <<>>
                       /\ xfer.meta.blocksize = DefaultBlocksize
                       /\ reply = IF last'.pkt.op = "RRQ"
                                  THEN DATA(1, last'.disk[<<<<"a">>>>])
                                  ELSE ACK(0)]_vars

\* a write request with the blksize 65465 was served: the option was dropped
\* and the request acknowledged with ACK(0)
C20_Witness ==
    /\ last.op = "server"
    /\ last.pkt = WRQ(<<"a", ".">>, "Octet", <<>>)
    /\ last.sent = <<Datagram(Client, ACK(0))>>
    /\ connections[last.token].transfer.meta.blocksize = DefaultBlocksize

----------------------------------------------------------------------------
(* Properties of the transfer size, teardown, tokens and windows *)

\* the options of a list that are (tsize = TRUE) or are not transfer sizes
Sizes(options, tsize) ==
    SelectSeq(options, LAMBDA o : (o.name = "TransferSize") = tsize)

\* C21: the reply to an accepted RRQ that carries a transfer size echoes the
\* other options as sent; when open_read reported a length the reply is an OACK
\* with one TransferSize, the length of the file; when it reported none the
\* reply carries no TransferSize, and is DATA block 1 when the transfer size
\* was the only option.  The dispatcher sends that reply and nothing else, or
\* nothing when its socket or its send_to fails.
C21_TransferSizeOfRead ==
    (Accepted("RRQ") /\ Sizes(last.pkt.options, TRUE) # <<>>)
        => LET len == ProxyOpenRead(policy, InitStore, last.pkt.filename,
                                    last.fault).len
               others == Sizes(last.pkt.options, FALSE)
           IN  /\ last.ret.res.ok
               /\ SentOnly(Reply)
               /\ len # None
                  => /\ Reply.op = "OACK"
                     /\ Sizes(Reply.options, TRUE) = <<TransferSize(len[1])>>
                     /\ Sizes(Reply.options, FALSE) = others
                     /\ last.fault # "nolen"
               /\ len = None
                  => /\ last.fault = "nolen"
                     /\ IF others = <<>>
                        THEN Reply.op = "DATA" /\ Reply.block_num = 1
                        ELSE Reply = OACK(others)

\* an RRQ with tsize 3 for a file of another length was answered with the
\* length of the file
C21_Witness ==
    /\ Accepted("RRQ")
    /\ last.pkt.options = <<TransferSize(3)>>
    /\ last.fault = "none"
    /\ Reply.op = "OACK"
    /\ Reply.options[1].value = Len(FirstBytes(last.pkt.filename, DirLen))
    /\ Reply.options[1].value # 3
    /\ last.sent = <<Datagram(Client, Reply)>>

\* an RRQ with tsize 3 for a file of unknown length was answered with DATA
\* block 1
C21_WitnessUnknown ==
    /\ Accepted("RRQ")
    /\ last.pkt.options = <<TransferSize(3)>>
    /\ last.fault = "nolen"
    /\ Reply.op = "DATA"

\* a connection whose Transfer is Complete is in the map
HoldsComplete == \E t \in DOMAIN connections : is_done(connections[t].transfer)

\* C22: a connection whose Transfer has become Complete is eventually removed
\* from the connection map, whatever datagrams arrive on its socket
C22_CompleteIsTornDown == HoldsComplete ~> (DOMAIN connections = {})

\* a datagram that completed a transfer left its connection in the map with
\* its timer armed
C22_CompleteLingers ==
    /\ last.op = "conn"
    /\ last.token \in DOMAIN connections
    /\ ~is_done(last.pre[last.token].transfer)
    /\ is_done(connections[last.token].transfer)
    /\ last.token \in timers

\* the tokens in use: the timer, the listening sockets and the connections
TokensOf(conns) == {TIMER} \cup ServerTokens \cup DOMAIN conns

\* C23: the timer token, the tokens of the listening sockets and the tokens
\* of the connections are pairwise distinct; the token generate_token returns
\* is not the timer token and is in neither map, also when the counter wraps,
\* and the token a new connection was given was in use by nothing before
C23_TokensArePartition ==
    /\ TIMER \notin ServerTokens
    /\ TIMER \notin DOMAIN connections
    /\ ServerTokens \cap DOMAIN connections = {}
    /\ TokensLeft(connections)
       => generate_token(new_token, connections) \notin TokensOf(connections)
    /\ (last.op = "server" /\ DOMAIN connections # DOMAIN last.pre)
       => /\ last.token \notin TokensOf(last.pre)
          /\ DOMAIN connections = DOMAIN last.pre \cup {last.token}

\* a connection was given a token after the counter wrapped: a connection
\* made before it holds a larger token
C23_Witness ==
    /\ last.op = "server"
    /\ last.token \in DOMAIN connections
    /\ \E t \in DOMAIN last.pre : t > last.token
    /\ last.token = FirstToken + 2

\* the block counter behind a block number near the wrap, the numbers from 0
\* on counted after 65535
Unwrapped(n) == IF n < HALF THEN n + U16 ELSE n

\* the RepeatLast items of a Response
Repeats(resp) == SelectSeq(resp, LAMBDA r : r.item = "RepeatLast")

\* the event handled last is this kind of packet on a running transfer of
\* this kind, with no fault of the system
Took(kind, op) ==
    /\ last.op = "conn"
    /\ last.fault = "none"
    /\ last.ret.ok
    /\ last.pre[last.token].transfer.kind = kind
    /\ last.pkt.op = op

\* what handle_ack does with unbounded block counters e and n
AckUnbounded(tx, e, n, resp, after) ==
    LET w == tx.meta.window_size
        inwin == n < e /\ n + w >= e
        consumed == IF inwin THEN e - n ELSE 0
        fresh == FreshData(resp)
    IN  /\ \A i \in 1..Len(fresh) : fresh[i].block_num = (e + i) % U16
        /\ ~is_done(after) => after.expected_block_num = (e + Len(fresh)) % U16
        /\ w = 1
           => /\ (n + 1 = e) => resp = <<RepeatLast(1)>>
              /\ (n + 1 # e /\ n # e)
                 => (Len(resp) = 2 /\ resp[1].p.op = "ERROR" /\ is_done(after))
              /\ (n = e /\ ~tx.sent_final) => Len(fresh) = 1
        /\ (w > 1 /\ ~tx.sent_final)
           => /\ Repeats(resp) = IF inwin THEN <<RepeatLast(consumed)>> ELSE <<>>
              /\ Len(fresh) <= w - consumed
              /\ (consumed < w) => Len(fresh) >= 1

\* what handle_data does with unbounded block counters e and n
DataUnbounded(e, n, resp, after) ==
    IF n = e
    THEN /\ resp[1] = PacketItem(ACK(n % U16))
         /\ ~is_done(after) => after.expected_block_num = (e + 1) % U16
         /\ fs[Sink] = last.disk[Sink] \o last.pkt.data
    ELSE /\ resp[1].p.op = "ERROR"
         /\ is_done(after)
         /\ fs = last.disk

\* C24: at the wrap of the block numbers a read numbers its blocks on from
\* 65535 to 0 and tells the window of an ACK as with unbounded counters, and
\* a write takes the DATA block whose number follows, 0 after 65535, and no
\* other
C24_BlockNumbersWrap ==
    /\ Took("Tx", "ACK")
       => AckUnbounded(last.pre[last.token].transfer,
                       Unwrapped(last.pre[last.token].transfer.expected_block_num),
                       Unwrapped(last.pkt.block_num),
                       last.ret.v, connections[last.token].transfer)
    /\ Took("Rx", "DATA")
       => DataUnbounded(Unwrapped(last.pre[last.token].transfer.expected_block_num),
                        Unwrapped(last.pkt.block_num),
                        last.ret.v, connections[last.token].transfer)

\* a read with window 2 that had sent the blocks 65535 and 0 took ACK(65535):
\* block 0 is repeated and block 1 is read
C24_Witness ==
    /\ Took("Tx", "ACK")
    /\ last.pre[last.token].transfer.expected_block_num = 0
    /\ last.pre[last.token].last_packets[1].block_num = U16 - 1
    /\ last.pkt = ACK(U16 - 1)
    /\ Len(last.ret.v) = 2
    /\ last.ret.v[1] = RepeatLast(1)
    /\ last.ret.v[2].p.block_num = 1

\* a write took DATA(65535) and then DATA(0)
C24_WitnessWrite ==
    /\ Took("Rx", "DATA")
    /\ last.pre[last.token].transfer.expected_block_num = 0
    /\ last.pkt.block_num = 0
    /\ last.ret.v[1] = PacketItem(ACK(0))
    /\ Len(fs[Sink]) > 8

\* the event handled last is a packet the Transfer of a connection was given
Given ==
    /\ last.op = "conn"
    /\ last.src = last.pre[last.token].remote
    /\ last.pkt # Malformed

\* C25: after a packet was given to a Transfer, the Transfer is Complete
\* exactly when a Response was returned and contains Done; when an error or
\* a Response without Done was returned the Transfer is of the kind it was
C25_CompleteIffDone ==
    Given
        => LET before == last.pre[last.token].transfer
               after == connections[last.token].transfer
           IN  /\ is_done(after) <=> (last.ret.ok /\ HasDone(last.ret.v))
               /\ (~last.ret.ok \/ ~HasDone(last.ret.v))
                  => /\ after.kind = before.kind
                     /\ after.kind \in {"Rx", "Tx"}

\* a write was given its short last block: the Response is the ACK and Done
\* and the Transfer is Complete
C25_Witness ==
    /\ Given
    /\ last.pre[last.token].transfer.kind = "Rx"
    /\ last.pkt.op = "DATA"
    /\ Len(last.ret.v) = 2
    /\ last.ret.v[1] = PacketItem(ACK(last.pkt.block_num))
    /\ last.ret.v[2] = DoneItem
    /\ is_done(connections[last.token].transfer)

\* C26: an RRQ, WRQ or OACK given to a running Transfer returns the error
\* TransferAlreadyRunning; nothing is sent, and the connection (its Transfer
\* with block number, flags and file position, and its last_packets) and the
\* files are as they were
C26_InitiatingPacketIsRefused ==
    (/\ Given
     /\ ~is_done(last.pre[last.token].transfer)
     /\ last.pkt.op \in {"RRQ", "WRQ", "OACK"})
        => /\ last.ret = Err("TransferAlreadyRunning")
           /\ last.sent = <<>>
           /\ connections = last.pre
           /\ fs = last.disk

\* a read with window 2 that had sent two blocks and timed out once was
\* given an RRQ
C26_Witness ==
    /\ Given
    /\ last.pkt.op = "RRQ"
    /\ last.pre[last.token].transfer.kind = "Tx"
    /\ last.pre[last.token].transfer.meta.timed_out
    /\ Len(last.pre[last.token].last_packets) = 2
    /\ last.ret = Err("TransferAlreadyRunning")
    /\ connections = last.pre

\* what C27 says of the Response to ACK(n) of a read with the window w that
\* has emitted the blocks up to e, and of the Transfer after it
WindowResponse(tx, e, n, resp, after) ==
    LET w == tx.meta.window_size
        consumed == (e - n + U16) % U16
        fresh == FreshData(resp)
    IN  /\ Repeats(resp) = IF consumed > 0 THEN <<RepeatLast(consumed)>> ELSE <<>>
        /\ consumed > 0 => resp[1] = RepeatLast(consumed)
        /\ Len(fresh) <= w - consumed
        /\ \A i \in 1..Len(fresh) :
              /\ fresh[i].block_num = (e + i) % U16
              /\ i < Len(fresh) => Len(fresh[i].data) = tx.meta.blocksize
        /\ after.kind = "Tx"
        /\ ~after.meta.timed_out

\* the ACK handled last is in the window of a read, n in (e - w, e], and is
\* not the acknowledgement of its final block
InWindowAck ==
    /\ Took("Tx", "ACK")
    /\ LET tx == last.pre[last.token].transfer
       IN  /\ (tx.expected_block_num - last.pkt.block_num + U16) % U16
                  < tx.meta.window_size
           /\ ~(tx.sent_final /\ last.pkt.block_num = tx.expected_block_num)

\* C27: the Response to an in-window ACK(n) that does not acknowledge the
\* final block is RepeatLast(consumed) when consumed = e - n > 0, then at most
\* w - consumed fresh DATA blocks numbered from e + 1 on, the last one alone
\* possibly short, and timed_out is cleared
C27_WindowOfAnAck ==
    InWindowAck
        => WindowResponse(last.pre[last.token].transfer,
                          last.pre[last.token].transfer.expected_block_num,
                          last.pkt.block_num, last.ret.v,
                          connections[last.token].transfer)

\* the packets of the datagrams sent to the client in the event handled last
SentPackets == [i \in 1..Len(last.sent) |-> last.sent[i].pkt]

\* the blocks from a to b of the file read, in their order
FileBlocks(a, b) == [i \in 1..(IF b < a THEN 0 ELSE b - a + 1) |-> FileBlock(a + i - 1)]

\* C28: after an ACK(n) in the window of a read with the window w, the
\* datagrams sent are the DATA blocks n + 1 .. n + w of the file, up to its
\* last block, in this order, whatever in-window ACKs came before
C28_WindowIsReemitted ==
    (/\ Took("Tx", "ACK")
     /\ (last.pre[last.token].transfer.expected_block_num - last.pkt.block_num
            + U16) % U16 < last.pre[last.token].transfer.meta.window_size)
        => /\ SentPackets =
                  FileBlocks(last.pkt.block_num + 1,
                             Min(last.pkt.block_num
                                     + last.pre[last.token].transfer.meta.window_size,
                                 LastBlock))
           /\ \A i \in 1..Len(last.sent) : last.sent[i].to = Client

\* the window a Transfer was given: 1 when no window size was accepted
WindowOf(xfer) == xfer.meta.window_size

\* C29: the last_packets of every connection are no more than the window of
\* its Transfer; those of a Transfer that has just become Complete are no more
\* than the window it had, and those of a Complete Transfer do not grow
C29_LastPacketsWithinWindow ==
    \A t \in DOMAIN connections :
        IF ~is_done(connections[t].transfer)
        THEN Len(connections[t].last_packets) <= WindowOf(connections[t].transfer)
        ELSE (last.op = "conn" /\ last.token = t)
                 => Len(connections[t].last_packets)
                        <= (IF is_done(last.pre[t].transfer)
                            THEN Len(last.pre[t].last_packets)
                            ELSE WindowOf(last.pre[t].transfer))

\* a read with window 2 holds the two blocks of a window it has just sent
C29_Witness ==
    /\ Took("Tx", "ACK")
    /\ ~is_done(connections[last.token].transfer)
    /\ WindowOf(connections[last.token].transfer) = 2
    /\ Len(connections[last.token].last_packets) = 2
    /\ connections[last.token].last_packets = SentPackets

\* the datagrams of a read that are sent and not acknowledged, when the read
\* has not reached the end of its file: the OACK before the first block, and
\* then the w blocks up to the last one emitted, e
Outstanding(conn) ==
    IF conn.transfer.expected_block_num = 0
    THEN conn.last_packets
    ELSE FileBlocks(conn.transfer.expected_block_num
                        - conn.transfer.meta.window_size + 1,
                    conn.transfer.expected_block_num)

\* C30: the first expiration of the idle timer of a read re-sends the blocks
\* sent and not acknowledged, in their order (the OACK when no block was
\* sent), and so one datagram or more
C30_ExpiryResendsTheWindow ==
    (last.op = "timer" /\ last.fault = {})
        => \A i \in 1..Len(last.token) :
               LET t == last.token[i]
               IN  (/\ t \in DOMAIN last.pre
                    /\ last.pre[t].transfer.kind = "Tx"
                    /\ ~last.pre[t].transfer.meta.timed_out
                    /\ ~last.pre[t].transfer.sent_final)
                       => /\ SentTo(t) = Outstanding(last.pre[t])
                          /\ Len(SentTo(t)) >= 1

----------------------------------------------------------------------------
(* Properties of windows on a write, of exact multiples, of failing I/O   *)
(* and of the options echoed                                              *)

\* the last event is a full DATA block a write transfer with a window larger
\* than one block expected and wrote
WroteFullBlock ==
    /\ WroteBlock
    /\ last.pre[last.token].transfer.meta.window_size > 1
    /\ Len(last.pkt.data) = last.pre[last.token].transfer.meta.blocksize

\* the block of the last event ends a window: with every block before it
\* received in sequence, the windows end at the multiples of the window size
AtWindowEdge ==
    last.pkt.block_num % last.pre[last.token].transfer.meta.window_size = 0

\* C31: on a write transfer with a window of more than one block, a full
\* DATA block received in sequence that does not end the window is written
\* to the file and is answered with no ACK.
C31_MidWindowBlockIsNotAcked ==
    (WroteFullBlock /\ ~AtWindowEdge)
    => /\ last.sent = <<>>
       /\ fs[last.pre[last.token].transfer.fwrite.key]
              = WriteBytes(last.disk, last.pre[last.token].transfer.fwrite,
                           last.pkt.data)
                    [last.pre[last.token].transfer.fwrite.key]

\* what does hold: the block is written, and a full block that ends a window
\* or a short block is answered with its ACK
C31_EdgeBlockIsAcked ==
    (/\ WroteBlock
     /\ last.pre[last.token].transfer.meta.window_size > 1
     /\ (AtWindowEdge \/ Len(last.pkt.data)
                            < last.pre[last.token].transfer.meta.blocksize))
    => last.sent = <<Datagram(Client, ACK(last.pkt.block_num))>>

\* C32: on a write transfer, a DATA block in the window (L, L + W] that is
\* not block L + 1 is answered with ACK(L) alone: nothing is written and the
\* transfer goes on as a write transfer.
C32_OutOfSequenceIsReacked ==
    (/\ PeerEvent("Rx")
     /\ last.pkt.op = "DATA"
     /\ last.fault = "none"
     /\ DataInWindow
     /\ last.pkt.block_num # last.pre[last.token].transfer.expected_block_num)
    => /\ last.ret
              = Ok(<<PacketItem(ACK((last.pre[last.token].transfer.expected_block_num
                                        + U16 - 1) % U16))>>)
       /\ fs = last.disk
       /\ connections[last.token].transfer.kind = "Rx"

\* the file of a read transfer is k blocks long and no more
ExactBlocks(tx) == Len(fs[tx.fread.key]) \div tx.meta.blocksize

IsExact(tx) == Len(fs[tx.fread.key]) % tx.meta.blocksize = 0

\* the blocks emitted so far are the blocks 1, 2, ... of the file, k full
\* blocks and then block k + 1 with no payload
EmitsTheBlocks(tx, data, k) ==
    /\ Len(data) <= k + 1
    /\ Numbered(data)
    /\ \A i \in 1..Len(data) :
           data[i].data = SubSeq(fs[tx.fread.key], (i - 1) * tx.meta.blocksize + 1,
                                 Min(i * tx.meta.blocksize, Len(fs[tx.fread.key])))
    /\ tx.sent_final <=> Len(data) = k + 1
    /\ tx.expected_block_num = Len(data)

\* the ACK handled last ends the read with success when it is ACK(k + 1) and
\* block k + 1 was emitted, and does not when it is ACK(k)
AwaitsLastAck(tx, k) ==
    /\ (last.pkt.block_num = k + 1 /\ tx.sent_final)
       => /\ last.ret = Ok(<<DoneItem>>)
          /\ is_done(connections[last.token].transfer)
    /\ last.pkt.block_num = k => last.ret # Ok(<<DoneItem>>)

\* C33: a read of a file of k blocks exactly, the empty file included, emits
\* k full DATA blocks and then DATA(k + 1) with no payload; sent_final is set
\* on that block alone, and the transfer is complete on ACK(k + 1), not on
\* ACK(k).
C33_ExactMultipleRead ==
    /\ \A t \in DOMAIN connections :
           (connections[t].transfer.kind = "Tx" /\ IsExact(connections[t].transfer))
           => EmitsTheBlocks(connections[t].transfer, hist[t].data,
                             ExactBlocks(connections[t].transfer))
    /\ (/\ PeerEvent("Tx")
        /\ last.pkt.op = "ACK"
        /\ IsExact(last.pre[last.token].transfer))
       => AwaitsLastAck(last.pre[last.token].transfer,
                        ExactBlocks(last.pre[last.token].transfer))

\* what does hold: the blocks emitted, whatever the window
C33_EmitsExactBlocks ==
    \A t \in DOMAIN connections :
        (connections[t].transfer.kind = "Tx" /\ IsExact(connections[t].transfer))
        => EmitsTheBlocks(connections[t].transfer, hist[t].data,
                          ExactBlocks(connections[t].transfer))

\* the number of blocks handle_ack reads for the ACK handled last when no
\* read fails
ReadsOf(tx) ==
    Len(FreshData(handle_ack(tx, last.pkt.block_num, last.disk, "none").resp))

\* the ACK handled last made the server read, and a read failed: the first
\* one, or the second one after a first one that was not the final block
ReadFailed ==
    /\ PeerEvent("Tx")
    /\ last.pkt.op = "ACK"
    /\ \/ last.fault = "read1" /\ ReadsOf(last.pre[last.token].transfer) >= 1
       \/ last.fault = "read2" /\ ReadsOf(last.pre[last.token].transfer) >= 2

\* the DATA block handled last was the one expected, and writing it failed:
\* it held bytes to write
WriteFailed ==
    /\ PeerEvent("Rx")
    /\ last.pkt.op = "DATA"
    /\ last.pkt.block_num = last.pre[last.token].transfer.expected_block_num
    /\ WriteFails(last.pkt.data, last.fault)

\* C34: a read that fails while an ACK is handled, and a write that fails
\* while a DATA block in sequence is handled, yield exactly
\* [ERROR(NotDefined), Done], with no DATA read before it in the call and no
\* ACK of the block, and the Transfer is Complete.  The dispatcher sends
\* that ERROR and nothing else, or nothing when its send_to fails.
C34_FailedIoEndsTransfer ==
    (ReadFailed \/ WriteFailed)
    => /\ last.ret = Ok(<<PacketItem(ErrorPacket("NotDefined")), DoneItem>>)
       /\ SentOnly(ErrorPacket("NotDefined"))
       /\ connections[last.token].transfer = Complete

\* the second read of a window failed after the first one gave a full block
C34_Witness ==
    /\ ReadFailed
    /\ last.fault = "read2"
    /\ last.pre[last.token].transfer.meta.window_size = 2
    /\ last.sent = <<Datagram(Client, ErrorPacket("NotDefined"))>>
    /\ connections[last.token].transfer = Complete

\* the write of a full block in sequence failed
C34_WitnessWrite ==
    /\ WriteFailed
    /\ Len(last.pkt.data) = last.pre[last.token].transfer.meta.blocksize
    /\ last.sent = <<Datagram(Client, ErrorPacket("NotDefined"))>>
    /\ connections[last.token].transfer = Complete

\* the names of the options of a list, in its order
OptionNames(options) == [i \in 1..Len(options) |-> options[i].name]

\* the value of the last option of this name in the list
LastValue(options, name) ==
    LET named == SelectSeq(options, LAMBDA o : o.name = name)
    IN  named[Len(named)].value

\* the meta of the transfer holds the last value of each option of the list
MetaReflects(meta, options) ==
    \A i \in 1..Len(options) :
        /\ options[i].name = "Blocksize"
           => meta.blocksize = LastValue(options, "Blocksize")
        /\ options[i].name = "WindowSize"
           => meta.window_size = LastValue(options, "WindowSize")
        /\ options[i].name = "TimeoutSecs"
           => meta.timeout = Some(LastValue(options, "TimeoutSecs"))

\* the reply to the accepted request of this kind is an OACK with the options
\* of the request in the order of their arrival, but for the transfer size of
\* a read of a file of unknown length, and the meta holds their values
EchoesInOrder(kind) ==
    (Accepted(kind) /\ Reply.op = "OACK")
    => /\ OptionNames(Reply.options)
              = OptionNames(IF kind = "RRQ" /\ last.fault = "nolen"
                            THEN Sizes(last.pkt.options, FALSE)
                            ELSE last.pkt.options)
       /\ MetaReflects(last.ret.xfer[1].meta, last.pkt.options)

\* C35: the OACK of rx_initial holds each recognized option in the order in
\* which the options arrived in the request, for a WRQ and for an RRQ, the
\* transfer size of a read included, and the TransferMeta holds the last
\* value seen of each option.
C35_EchoKeepsArrivalOrder == EchoesInOrder("WRQ") /\ EchoesInOrder("RRQ")

\* what does hold: the echo of a WRQ, and of an RRQ when the transfer size is
\* set apart
C35_EchoOfWrite == EchoesInOrder("WRQ")

\* the last request is an octet WRQ with a transfer size whose file could be
\* created, and the preallocation of the file failed
PreallocationFailed ==
    /\ OctetRequest("WRQ")
    /\ last.fault = "prealloc"
    /\ TsizeOf(None, last.pkt.options) # None
    /\ ProxyCreateNew(policy, last.disk, last.pkt.filename, None, "none").ok

\* C36: a WRQ whose file is created and whose preallocation to the transfer
\* size fails is accepted all the same, with an OACK and an Rx Transfer, and
\* a WRQ answered ERROR(FileExists) leaves no file it created.
C36_PreallocationIsAHint ==
    /\ PreallocationFailed
       => /\ last.ret.xfer # None
          /\ last.ret.xfer[1].kind = "Rx"
          /\ Reply.op = "OACK"
    /\ (OctetRequest("WRQ") /\ RepliedError("FileExists")) => fs = last.disk

\* what does hold: a WRQ refused for another reason leaves the store alone
C36_RefusedLeavesNoFile ==
    (OctetRequest("WRQ") /\ RepliedError("FileExists") /\ ~PreallocationFailed)
    => fs = last.disk

\* the blocks the ACK handled last made the server read and emit
FreshBlocks == Len(FreshData(last.ret.v))

\* the DATA blocks of a read emitted and not acknowledged: the serial
\* distance from the highest block acknowledged in the window to the last
\* block emitted
Unacknowledged(t) ==
    (connections[t].transfer.expected_block_num + U16 - hist[t].acked) % U16

\* C37: in every state of a read with the window w the DATA blocks emitted
\* and not acknowledged are w or fewer: no ACK, be it a duplicate, stale or
\* out of the window, makes the server read and emit blocks beyond that.
C37_OutstandingWithinWindow ==
    \A t \in DOMAIN connections :
        connections[t].transfer.kind = "Tx"
        => Unacknowledged(t) <= connections[t].transfer.meta.window_size

\* what does hold: the bound after an ACK in the window
C37_InWindowAckKeepsBound ==
    (/\ PeerEvent("Tx")
     /\ last.pkt.op = "ACK"
     /\ last.ret.ok
     /\ AckInWindow)
    => ((last.pre[last.token].transfer.expected_block_num + U16
             - last.pkt.block_num) % U16) + FreshBlocks
           <= last.pre[last.token].transfer.meta.window_size

\* C38: in every state of the dispatcher every connection of the map has its
\* idle timer pending, so that every token drained by process_timer is
\* handled in the same pass, a failing send for an earlier token or not, and
\* no connection stays in the map for ever once its peer is silent.
C38_EveryConnectionHasItsTimer ==
    /\ \A t \in DOMAIN connections : t \in timers
    /\ last.op = "timer"
       => \A i \in 1..Len(last.token) :
              last.token[i] \in DOMAIN last.pre
              => \/ last.token[i] \notin DOMAIN connections
                 \/ last.token[i] \in timers

\* what does hold: the timers pending are those of the connections, but
\* after a pass of process_timer in which a send failed
C38_TimersWhenSendsSucceed ==
    (last.op = "timer" => last.fault = {}) => timers = DOMAIN connections

\* the ACK handled last ended a read with success: the Response is Done
\* alone, with no ERROR packet
EndedWithSuccess ==
    /\ PeerEvent("Tx")
    /\ last.pkt.op = "ACK"
    /\ last.ret = Ok(<<DoneItem>>)

\* C39: a read ends with success, the Response to an ACK being Done alone,
\* only when sent_final is set and the ACK is that of the last block
\* emitted, the final one: whatever the window, an ACK of an earlier block
\* that arrives after the final block was emitted does not end the read as a
\* success.
C39_SuccessOnlyOnFinalAck ==
    EndedWithSuccess
    => /\ last.pre[last.token].transfer.sent_final
       /\ last.pkt.block_num = last.pre[last.token].transfer.expected_block_num

\* what does hold: the claim for a window of one block, and sent_final for
\* every window
C39_SuccessOfLockstep ==
    EndedWithSuccess
    => /\ last.pre[last.token].transfer.sent_final
       /\ last.pre[last.token].transfer.meta.window_size = 1
          => last.pkt.block_num = last.pre[last.token].transfer.expected_block_num

\* the event handled last is a well-formed datagram of the peer of a
\* connection, answered with a Response that left its transfer running
PeerAnswered ==
    /\ last.op = "conn"
    /\ last.src = last.pre[last.token].remote
    /\ last.pkt # Malformed
    /\ last.ret.ok
    /\ ~is_done(last.pre[last.token].transfer)
    /\ ~is_done(connections[last.token].transfer)

\* the next event is the idle timer of that connection expiring, with every
\* send succeeding
ThenExpires ==
    /\ last'.op = "timer"
    /\ last'.fault = {}
    /\ \E i \in 1..Len(last'.token) : last'.token[i] = last.token

\* the expiration leaves the connection in the map, its transfer running
StaysOpen ==
    /\ last.token \in DOMAIN connections'
    /\ ~is_done(connections'[last.token].transfer)

\* the datagram answered last was a duplicate ACK of a read with a window of
\* one block, answered with the block sent again
DuplicateAck ==
    /\ last.pkt.op = "ACK"
    /\ last.ret = Ok(<<RepeatLast(1)>>)

\* C40: the idle timeout closes a transfer only at the second of two
\* expirations with no datagram received between them: an expiration that
\* follows a well-formed datagram of the peer that was answered and did not
\* end the transfer, a duplicate ACK answered with a retransmission
\* included, re-sends and does not close the transfer.
C40_DatagramPostponesClosing ==
    [][(PeerAnswered /\ ThenExpires) => StaysOpen]_vars

\* what does hold: the claim for every datagram but the duplicate ACK
C40_FreshDatagramPostponesClosing ==
    [][(PeerAnswered /\ ~DuplicateAck /\ ThenExpires) => StaysOpen]_vars

========================================================================
